---------------------------- MODULE Spec2Model ----------------------------
(***************************************************************************)
(* State-machine model of src/main.py: TwitchTokenManager (credential      *)
(* refresh), XPoster (rate-limited publish queue) and TwitchStreamMonitor  *)
(* (stream-session poll loop).                                             *)
(*                                                                         *)
(* asyncio runs every task on one thread, so a task changes state only     *)
(* between two awaits that really suspend.  Each action below is one such  *)
(* uninterrupted stretch of code.  Time is the integer number of seconds   *)
(* on the clocks the code reads (time.monotonic and time.time).            *)
(***************************************************************************)
EXTENDS Integers, Sequences, FiniteSets, TLC

VARIABLES
    clock,              \* time.monotonic()
    wall,               \* time.time()
    \* ---- TwitchTokenManager
    tm_access_token,    \* self._access_token (NoValue = None)
    tm_expires_at,      \* self._expires_at
    tm_refresh_token,   \* self._refresh_token
    tm_lock,            \* self._lock: <<>> when free, else holder followed by the waiters in FIFO order
    tm_pc,              \* where each caller of get_access_token is
    tm_call,            \* what each caller's current or last call saw and got
    tm_inflight,        \* callers whose POST to the token endpoint has no response yet
    \* ---- XPoster
    xp_queue,           \* self._queue: the jobs and the None sentinel, oldest first
    xp_task,            \* self._task: NoTask or the worker task
    xp_last_post_time,  \* self._last_post_time
    xp_pc,              \* where each worker task is
    xp_job,             \* the job each worker task holds
    xp_wake_at,         \* when each worker's asyncio.sleep ends
    xp_close_pc,        \* where run_bot's call of close is
    xp_starts,          \* number of calls of start
    xp_next_id,         \* the number the next submitted job gets
    xp_accepted,        \* the jobs put on the queue, in order
    xp_dropped,         \* the jobs refused by put_nowait, with the queue length they met
    xp_attempts,        \* the publish attempts, in the order they started
    fs_files,           \* the files on disk that some job names as its cleanup path
    fs_created,         \* number of temporary chart files created so far
    \* ---- TwitchStreamMonitor
    mon_pc,                     \* where the monitor task is
    mon_session,                \* self._session (NoSession = None)
    mon_previous,               \* the detached session: previous_session of _handle_stream_live,
                                \* session of _handle_stream_offline
    mon_now,                    \* now of the current _poll_once
    mon_stream_info,            \* stream_info of the current _poll_once
    mon_youtube_infos,          \* youtube_infos of the current _poll_once
    mon_fetched,                \* what the gathered fetches of this _poll_once gave
    mon_youtube_last_polled_at, \* self._youtube_last_polled_at
    mon_wait_until,             \* when the wait of _wait_for_next_poll times out
    mon_stream_history,         \* self._stream_history, as last saved to the cache too
    mon_iter,                   \* what the current or last poll iteration has done so far
    mon_polls,                  \* number of poll iterations started
    mon_stop,                   \* the monitor's stop event is set
    mon_upcoming_posted_ids,    \* self._youtube_upcoming_posted_ids
    mon_upcoming_last_polled_at,\* self._youtube_upcoming_last_polled_at
    mon_monthly_stats_posted,   \* self._monthly_stats_posted
    ann_upcoming_log,           \* the video ids announcement jobs were submitted for, in order
    ann_monthly_log,            \* the month keys statistics jobs were submitted for, in order
    ann_results,                \* what the upcoming fetches of the latest poll gave
    stats_call,                 \* the latest call of _calculate_monthly_stats and its result
    fs_upcoming_cache,          \* the file of the announced video ids (NoFile = there is none)
    fs_history_cache,           \* the file of the stream history
    fs_monthly_cache,           \* the file of the months the statistics were posted for
    \* ---- TwitchIRCListener
    irc_last,                   \* the last line given to _handle_irc_line, with the queue it met
    irc_count,                  \* number of lines handled
    irc_written,                \* the lines written to the current or last connection, in order
    irc_pc,                     \* where TwitchIRCListener.run is
    irc_stop,                   \* self._stop_event.is_set()
    irc_stop_pc,                \* where run was when stop was called ("" = it was not)
    irc_wake_at,                \* when the sleep before the reconnect is over
    irc_token_calls,            \* number of calls of get_access_token by the listener
    irc_conns,                  \* number of connections opened
    irc_closes,                 \* number of connections closed
    irc_attempt                 \* the current or last call of _connect_and_listen

tm_vars == <<tm_access_token, tm_expires_at, tm_refresh_token, tm_lock, tm_pc, tm_call, tm_inflight>>

xp_vars == <<xp_queue, xp_task, xp_last_post_time, xp_pc, xp_job, xp_wake_at, xp_close_pc,
             xp_starts, xp_next_id, xp_accepted, xp_dropped, xp_attempts, fs_files, fs_created>>

time_vars == <<clock, wall>>

mon_vars == <<mon_pc, mon_session, mon_previous, mon_now, mon_stream_info,
              mon_youtube_infos, mon_fetched, mon_youtube_last_polled_at, mon_wait_until,
              mon_stream_history, mon_iter, mon_polls, mon_stop>>

ann_vars == <<mon_upcoming_posted_ids, mon_upcoming_last_polled_at, mon_monthly_stats_posted,
              ann_upcoming_log, ann_monthly_log, ann_results>>

irc_vars == <<irc_last, irc_count, irc_written, irc_pc, irc_stop, irc_stop_pc, irc_wake_at,
              irc_token_calls, irc_conns, irc_closes, irc_attempt>>

stats_vars == <<stats_call>>

cache_vars == <<fs_upcoming_cache, fs_history_cache, fs_monthly_cache>>

vars == <<time_vars, tm_vars, xp_vars, mon_vars, ann_vars, irc_vars, stats_vars, cache_vars>>

-----------------------------------------------------------------------------
(* Bounds of the model *)

\* the clock advances in steps of ClockStep seconds, up to MaxClock
ClockStep == 30
MaxClock == 150

\* lines the listener handles in one run
MaxLines == 3

\* calls of _connect_and_listen in one run
MaxConnects == 2

\* jobs submitted to the queue in one run, worker tasks that can exist, calls of start
MaxJobs == 3
MaxWorkers == 2
MaxStarts == 2

\* poll iterations of the monitor in one run
MaxPolls == 4

\* None, a missing JSON field, an empty string
NoValue == "none"

-----------------------------------------------------------------------------
(* TwitchTokenManager *)

TOKEN_REFRESH_MARGIN_SECONDS == 60
DEFAULT_EXPIRES_IN_SECONDS == 3600

\* the tasks that call get_access_token: TwitchIRCListener._connect_and_listen
\* (through build_twitch_credentials) and TwitchStreamMonitor._poll_once
Callers == {"listener", "monitor"}

AccessTokens == {"a1", "a2"}
RefreshTokens == {"r0", "r1"}
\* expires_in as the endpoint may send it: absent or not a number (NoValue),
\* not positive, shorter than the margin, longer than the margin
ExpiresInValues ==
    {[is_int |-> FALSE, value |-> 0]} \cup [is_int : {TRUE}, value : {0, 30, 90}]

\* the responses of the token endpoint
TokenResponses ==
    [kind : {"http_error"}]
    \cup [kind : {"json"}, access_token : AccessTokens \cup {NoValue},
          refresh_token : RefreshTokens \cup {NoValue}, expires_in : ExpiresInValues]

NoCall == [had_token |-> FALSE, check_left |-> 0, requested |-> FALSE,
           arrived_inflight |-> FALSE, outcome |-> "none", ret_left |-> 0,
           raw_expires_in |-> [is_int |-> FALSE, value |-> 0], token |-> NoValue]

\* time.monotonic() < self._expires_at - TOKEN_REFRESH_MARGIN_SECONDS
IsTokenValidNoMargin(now, expires_at) == now <= expires_at - TOKEN_REFRESH_MARGIN_SECONDS
IsTokenValid(now, expires_at) == now < expires_at - TOKEN_REFRESH_MARGIN_SECONDS

\* if self._access_token and self._is_token_valid()
CachedTokenUsable == tm_access_token # NoValue /\ IsTokenValid(clock, tm_expires_at)

\* int(expires_in), 3600 when it is missing, not a number or not positive
ExpiresInSecondsNoDefault(raw) == IF ~raw.is_int THEN DEFAULT_EXPIRES_IN_SECONDS ELSE raw.value
ExpiresInSeconds(raw) ==
    IF ~raw.is_int THEN DEFAULT_EXPIRES_IN_SECONDS
    ELSE IF raw.value <= 0 THEN DEFAULT_EXPIRES_IN_SECONDS ELSE raw.value

\* asyncio.Lock: free when nobody holds it
LockFreeAlways(lock) == TRUE
LockFree(lock) == lock = <<>>

\* the caller holds the lock from here: return the cached token, or send the
\* refresh request and suspend until the response
EnterLocked(c, arrived) ==
    IF CachedTokenUsable
    THEN /\ tm_pc' = [tm_pc EXCEPT ![c] = "idle"]
         /\ tm_call' = [tm_call EXCEPT ![c] =
                [NoCall EXCEPT !.had_token = TRUE,
                               !.check_left = tm_expires_at - clock,
                               !.arrived_inflight = arrived,
                               !.outcome = "returned",
                               !.ret_left = tm_expires_at - clock,
                               !.token = tm_access_token]]
         /\ UNCHANGED tm_inflight
    ELSE /\ tm_pc' = [tm_pc EXCEPT ![c] = "refreshing"]
         /\ tm_call' = [tm_call EXCEPT ![c] =
                [NoCall EXCEPT !.had_token = (tm_access_token # NoValue),
                               !.check_left = tm_expires_at - clock,
                               !.arrived_inflight = arrived,
                               !.requested = TRUE,
                               !.outcome = "pending"]]
         /\ tm_inflight' = tm_inflight \cup {c}

\* get_access_token up to its first suspension: take the lock if it is free
\* (then check the cache), else queue behind the holder
GetAccessToken(c) ==
    /\ tm_pc[c] = "idle"
    /\ IF LockFree(tm_lock)
       THEN /\ EnterLocked(c, FALSE)
            /\ tm_lock' = IF CachedTokenUsable THEN tm_lock ELSE <<c>> \o tm_lock
       ELSE /\ tm_pc' = [tm_pc EXCEPT ![c] = "waiting"]
            /\ tm_call' = [tm_call EXCEPT ![c] =
                   [NoCall EXCEPT !.arrived_inflight = (tm_inflight # {}),
                                  !.outcome = "pending"]]
            /\ tm_lock' = Append(tm_lock, c)
            /\ UNCHANGED tm_inflight
    /\ UNCHANGED <<cache_vars, stats_vars, ann_vars, irc_vars, time_vars, tm_access_token, tm_expires_at, tm_refresh_token, xp_vars, mon_vars>>

\* a waiter is woken with the lock: it is now the first of tm_lock
AcquireAfterWait(c) ==
    /\ tm_pc[c] = "waiting"
    /\ tm_lock # <<>> /\ Head(tm_lock) = c
    /\ EnterLocked(c, tm_call[c].arrived_inflight)
    /\ tm_lock' = IF CachedTokenUsable THEN Tail(tm_lock) ELSE tm_lock
    /\ UNCHANGED <<cache_vars, stats_vars, ann_vars, irc_vars, time_vars, tm_access_token, tm_expires_at, tm_refresh_token, xp_vars, mon_vars>>

\* _refresh_token_locked from the response on, and the rest of get_access_token
RefreshResponseForgetsOnFailure(c, resp) ==
    /\ tm_pc[c] = "refreshing"
    /\ tm_inflight' = tm_inflight \ {c}
    /\ tm_pc' = [tm_pc EXCEPT ![c] = "idle"]
    /\ tm_lock' = Tail(tm_lock)
    /\ IF resp.kind = "http_error" \/ resp.access_token = NoValue
       THEN /\ tm_call' = [tm_call EXCEPT ![c].outcome = "raised"]
            /\ tm_access_token' = NoValue
            /\ tm_expires_at' = 0
            /\ UNCHANGED tm_refresh_token
       ELSE /\ tm_refresh_token' =
                  IF resp.refresh_token # NoValue /\ resp.refresh_token # tm_refresh_token
                  THEN resp.refresh_token ELSE tm_refresh_token
            /\ tm_access_token' = resp.access_token
            /\ tm_expires_at' = clock + ExpiresInSeconds(resp.expires_in)
            /\ tm_call' = [tm_call EXCEPT ![c].outcome = "returned",
                                          ![c].ret_left = tm_expires_at' - clock,
                                          ![c].raw_expires_in = resp.expires_in,
                                          ![c].token = resp.access_token]
    /\ UNCHANGED <<cache_vars, stats_vars, ann_vars, irc_vars, time_vars, xp_vars, mon_vars>>
RefreshResponse(c, resp) ==
    /\ tm_pc[c] = "refreshing"
    /\ tm_inflight' = tm_inflight \ {c}
    /\ tm_pc' = [tm_pc EXCEPT ![c] = "idle"]
    /\ tm_lock' = Tail(tm_lock)
    /\ IF resp.kind = "http_error" \/ resp.access_token = NoValue
       THEN \* raise: nothing is stored
            /\ tm_call' = [tm_call EXCEPT ![c].outcome = "raised"]
            /\ UNCHANGED <<tm_access_token, tm_expires_at, tm_refresh_token>>
       ELSE /\ tm_refresh_token' =
                  IF resp.refresh_token # NoValue /\ resp.refresh_token # tm_refresh_token
                  THEN resp.refresh_token ELSE tm_refresh_token
            /\ tm_access_token' = resp.access_token
            /\ tm_expires_at' = clock + ExpiresInSeconds(resp.expires_in)
            /\ tm_call' = [tm_call EXCEPT ![c].outcome = "returned",
                                          ![c].ret_left = tm_expires_at' - clock,
                                          ![c].raw_expires_in = resp.expires_in,
                                          ![c].token = resp.access_token]
    /\ UNCHANGED <<cache_vars, stats_vars, ann_vars, irc_vars, time_vars, xp_vars, mon_vars>>

-----------------------------------------------------------------------------
(* Scheduling *)

\* The monitor task runs from the last fetch of a poll (the upcoming fetches,
\* when they are due, else the fetches before them) to the end of the poll
\* without suspending (its later awaits never wait: the session lock is
\* uncontended and put_nowait does not block), so no other task and no
\* timer runs while it is between those two points.
\* settings.youtube_upcoming_poll_interval_seconds
youtube_upcoming_poll_interval_seconds == 60

\* _fetch_youtube_upcoming_infos: skipped until the interval has passed
UpcomingPollDue(now) ==
    ~((now - mon_upcoming_last_polled_at) < youtube_upcoming_poll_interval_seconds)

OthersMayRun ==
    \/ mon_pc \in {"wait", "fetching"}
    \/ mon_pc = "upcoming" /\ UpcomingPollDue(mon_now)

-----------------------------------------------------------------------------
(* XPoster *)

\* settings.x_post_interval_seconds and settings.x_queue_size (both positive)
interval_seconds == 60
queue_size == 2

Workers == 1..MaxWorkers
NoTask == 0
NoPath == 0

\* XPostJob; the None that close puts on the queue is the job numbered 0
Sentinel == [id |-> 0, text |-> NoValue, media_path |-> NoPath, cleanup_path |-> NoPath]
NoJob == [id |-> -1, text |-> NoValue, media_path |-> NoPath, cleanup_path |-> NoPath]

\* the texts the callers build (build_tweet and the build_*_tweet functions
\* never return an empty text)
Texts == {"text"}

\* asyncio.Queue(maxsize=queue_size).full()
QueueFullOffByOne(q) == Len(q) > queue_size
QueueFullEarly(q) == Len(q) >= queue_size - 1
QueueFull(q) == Len(q) >= queue_size

\* asyncio.Queue.get: the oldest entry
QueueGetKeep(q) == [item |-> Head(q), rest |-> q]
QueueGetNewest(q) == [item |-> q[Len(q)], rest |-> SubSeq(q, 1, Len(q) - 1)]
QueueGet(q) == [item |-> Head(q), rest |-> Tail(q)]

\* start: "if self._task is None"
NeedsNewTaskAlways(task) == TRUE
NeedsNewTask(task) == task = NoTask

\* _wait_for_interval: remaining = interval_seconds - (now - last_post_time)
RemainingNoWait(now, last_post_time) == 0
Remaining(now, last_post_time) == interval_seconds - (now - last_post_time)

\* start; run_bot calls it before the producers run, never after close
Start ==
    /\ xp_starts < MaxStarts
    /\ xp_close_pc = "none"
    /\ OthersMayRun
    /\ xp_starts' = xp_starts + 1
    /\ IF NeedsNewTask(xp_task) /\ \E w \in Workers : xp_pc[w] = "none"
       THEN LET w == CHOOSE x \in Workers :
                        xp_pc[x] = "none" /\ \A y \in Workers : xp_pc[y] = "none" => x <= y
            IN /\ xp_task' = w
               /\ xp_pc' = [xp_pc EXCEPT ![w] = "get"]
       ELSE UNCHANGED <<xp_task, xp_pc>>
    /\ UNCHANGED <<cache_vars, stats_vars, ann_vars, irc_vars, time_vars, tm_vars, mon_vars, xp_queue, xp_last_post_time, xp_job, xp_wake_at, xp_close_pc,
                   xp_next_id, xp_accepted, xp_dropped, xp_attempts, fs_files, fs_created>>

\* the queue and what has been submitted to it so far
QueueState == [queue |-> xp_queue, next_id |-> xp_next_id,
               accepted |-> xp_accepted, dropped |-> xp_dropped]

\* _enqueue_job on the queue state st: put_nowait, and the job is dropped on
\* QueueFull
PutNowait(st, text, media_path, cleanup_path) ==
    LET job == [id |-> st.next_id, text |-> text,
                media_path |-> media_path, cleanup_path |-> cleanup_path]
    IN IF QueueFull(st.queue)
       THEN [st EXCEPT !.next_id = st.next_id + 1,
                       !.dropped = st.dropped \cup {[id |-> job.id, qlen |-> Len(st.queue)]}]
       ELSE [st EXCEPT !.next_id = st.next_id + 1,
                       !.queue = Append(st.queue, job),
                       !.accepted = Append(st.accepted, job.id)]

\* the queue state st becomes the state of the queue
QueueBecomes(st) ==
    /\ xp_queue' = st.queue
    /\ xp_next_id' = st.next_id
    /\ xp_accepted' = st.accepted
    /\ xp_dropped' = st.dropped

\* _enqueue_job
EnqueueJob(text, media_path, cleanup_path) ==
    QueueBecomes(PutNowait(QueueState, text, media_path, cleanup_path))

\* enqueue_text called n times in a row by one caller
PutTextsAtMostOnce(st, n) ==
    IF n = 0 THEN st ELSE PutNowait(st, "text", NoPath, NoPath)
RECURSIVE PutTexts(_, _)
PutTexts(st, n) ==
    IF n = 0 THEN st ELSE PutTexts(PutNowait(st, "text", NoPath, NoPath), n - 1)

\* a producer may submit: run_bot closes the queue only after the listener has
\* returned and the monitor task has ended
ProducersRunning == xp_close_pc = "none"

\* enqueue_text
EnqueueText(text) ==
    IF text = ""
    THEN UNCHANGED <<xp_next_id, xp_queue, xp_accepted, xp_dropped>>
    ELSE EnqueueJob(text, NoPath, NoPath)

\* enqueue_media
EnqueueMediaNever(text, media_path, cleanup_path) ==
    UNCHANGED <<xp_next_id, xp_queue, xp_accepted, xp_dropped>>
EnqueueMedia(text, media_path, cleanup_path) ==
    IF text = "" \/ media_path = NoPath
    THEN UNCHANGED <<xp_next_id, xp_queue, xp_accepted, xp_dropped>>
    ELSE EnqueueJob(text, media_path, cleanup_path)

\* _create_graph_path: a new, empty temporary file
CreateGraphPath ==
    /\ fs_created' = fs_created + 1
    /\ fs_files' = fs_files \cup {fs_created + 1}

\* a producer submits a text job: the listener's _handle_irc_line, or the
\* monitor's announcement and statistics posts
SubmitText(text) ==
    /\ ProducersRunning
    /\ OthersMayRun
    /\ xp_next_id <= MaxJobs
    /\ EnqueueText(text)
    /\ UNCHANGED <<cache_vars, stats_vars, ann_vars, irc_vars, time_vars, tm_vars, mon_vars, xp_task, xp_last_post_time, xp_pc, xp_job,
                   xp_wake_at, xp_close_pc, xp_starts, xp_attempts, fs_files, fs_created>>

\* a producer submits an image job the way _post_session_summary does: the
\* chart file it has just created is both the image and the cleanup path
SubmitMedia(text) ==
    /\ ProducersRunning
    /\ OthersMayRun
    /\ xp_next_id <= MaxJobs
    /\ CreateGraphPath
    /\ EnqueueMedia(text, fs_created + 1, fs_created + 1)
    /\ UNCHANGED <<cache_vars, stats_vars, ann_vars, irc_vars, time_vars, tm_vars, mon_vars, xp_task, xp_last_post_time, xp_pc, xp_job,
                   xp_wake_at, xp_close_pc, xp_starts, xp_attempts>>

\* the publish attempt begins: the interval has been waited out
BeginAttempt(w, job) ==
    /\ xp_attempts' = Append(xp_attempts,
            [id |-> job.id, start |-> clock, end |-> -1, ok |-> FALSE,
             cleanup_path |-> job.cleanup_path, media_path |-> job.media_path,
             calls |-> IF job.media_path # NoPath
                       THEN <<"media_upload">> ELSE <<"create_tweet">>,
             upload_failed |-> FALSE])
    /\ xp_pc' = [xp_pc EXCEPT ![w] = IF job.media_path # NoPath THEN "uploading" ELSE "posting"]

\* _worker: queue.get(), return on the sentinel, else _post_to_x up to its
\* first suspension (the sleep of _wait_for_interval, or the upload or post)
WorkerGet(w) ==
    /\ xp_pc[w] = "get"
    /\ OthersMayRun
    /\ xp_queue # <<>>
    /\ LET got == QueueGet(xp_queue)
           remaining == Remaining(clock, xp_last_post_time)
       IN /\ xp_queue' = got.rest
          /\ IF got.item.id = Sentinel.id
             THEN /\ xp_pc' = [xp_pc EXCEPT ![w] = "done"]
                  /\ UNCHANGED <<xp_job, xp_wake_at, xp_attempts>>
             ELSE /\ xp_job' = [xp_job EXCEPT ![w] = got.item]
                  /\ IF remaining > 0
                     THEN /\ xp_pc' = [xp_pc EXCEPT ![w] = "sleeping"]
                          /\ xp_wake_at' = [xp_wake_at EXCEPT ![w] = clock + remaining]
                          /\ UNCHANGED xp_attempts
                     ELSE /\ BeginAttempt(w, got.item)
                          /\ UNCHANGED xp_wake_at
    /\ UNCHANGED <<cache_vars, stats_vars, ann_vars, irc_vars, time_vars, tm_vars, mon_vars, xp_task, xp_last_post_time, xp_close_pc, xp_starts,
                   xp_next_id, xp_accepted, xp_dropped, fs_files, fs_created>>

\* asyncio.sleep(remaining) is over
WorkerWake(w) ==
    /\ xp_pc[w] = "sleeping"
    /\ OthersMayRun
    /\ clock >= xp_wake_at[w]
    /\ BeginAttempt(w, xp_job[w])
    /\ UNCHANGED <<cache_vars, stats_vars, ann_vars, irc_vars, time_vars, tm_vars, mon_vars, xp_queue, xp_task, xp_last_post_time, xp_job, xp_wake_at,
                   xp_close_pc, xp_starts, xp_next_id, xp_accepted, xp_dropped, fs_files, fs_created>>

\* _post_to_x, the finally block: "if job.cleanup_path: os.remove(...)",
\* whatever the outcome ok of the attempt was
CleanupOnSuccessOnly(files, job, ok) ==
    IF ok /\ job.cleanup_path # NoPath THEN files \ {job.cleanup_path} ELSE files
Cleanup(files, job, ok) ==
    IF job.cleanup_path # NoPath THEN files \ {job.cleanup_path} ELSE files

\* the end of _post_to_x: _last_post_time on success only, the cleanup file
\* removed in the finally block, then task_done and back to queue.get()
FinishAttempt(w, ok) ==
    /\ xp_last_post_time' = IF ok THEN clock ELSE xp_last_post_time
    /\ fs_files' = Cleanup(fs_files, xp_job[w], ok)
    /\ xp_attempts' = [i \in 1..Len(xp_attempts) |->
            IF xp_attempts[i].id = xp_job[w].id
            THEN [xp_attempts[i] EXCEPT !.end = clock, !.ok = ok,
                                        !.upload_failed = (xp_pc[w] = "uploading")]
            ELSE xp_attempts[i]]
    /\ xp_job' = [xp_job EXCEPT ![w] = NoJob]
    /\ xp_pc' = [xp_pc EXCEPT ![w] = "get"]

\* the client call named call is made in the attempt of the job id
CallMade(attempts, id, call) ==
    [i \in 1..Len(attempts) |->
        IF attempts[i].id = id
        THEN [attempts[i] EXCEPT !.calls = Append(@, call)]
        ELSE attempts[i]]

\* media_upload returns or raises: create_tweet is called with the media id
\* it returned, and an exception goes to the except and finally blocks
UploadDoneFailureIgnored(w, ok) ==
    /\ xp_pc[w] = "uploading"
    /\ OthersMayRun
    /\ xp_pc' = [xp_pc EXCEPT ![w] = "posting"]
    /\ xp_attempts' = [i \in 1..Len(xp_attempts) |->
            IF xp_attempts[i].id = xp_job[w].id
            THEN [xp_attempts[i] EXCEPT !.calls = Append(@, "create_tweet"),
                                        !.upload_failed = ~ok]
            ELSE xp_attempts[i]]
    /\ UNCHANGED <<xp_last_post_time, fs_files, xp_job>>
    /\ UNCHANGED <<cache_vars, stats_vars, ann_vars, irc_vars, time_vars, tm_vars, mon_vars, xp_queue, xp_task, xp_wake_at, xp_close_pc,
                   xp_starts, xp_next_id, xp_accepted, xp_dropped, fs_created>>
UploadDone(w, ok) ==
    /\ xp_pc[w] = "uploading"
    /\ OthersMayRun
    /\ IF ok
       THEN /\ xp_pc' = [xp_pc EXCEPT ![w] = "posting"]
            /\ xp_attempts' = CallMade(xp_attempts, xp_job[w].id, "create_tweet")
            /\ UNCHANGED <<xp_last_post_time, fs_files, xp_job>>
       ELSE FinishAttempt(w, FALSE)
    /\ UNCHANGED <<cache_vars, stats_vars, ann_vars, irc_vars, time_vars, tm_vars, mon_vars, xp_queue, xp_task, xp_wake_at, xp_close_pc,
                   xp_starts, xp_next_id, xp_accepted, xp_dropped, fs_created>>

\* create_tweet returns or raises
PostDone(w, ok) ==
    /\ xp_pc[w] = "posting"
    /\ OthersMayRun
    /\ FinishAttempt(w, ok)
    /\ UNCHANGED <<cache_vars, stats_vars, ann_vars, irc_vars, time_vars, tm_vars, mon_vars, xp_queue, xp_task, xp_wake_at, xp_close_pc,
                   xp_starts, xp_next_id, xp_accepted, xp_dropped, fs_created>>

\* close, called by run_bot once the producers have ended: return at once if
\* no task was started, else wait for room and put the sentinel
Close ==
    /\ xp_close_pc \in {"none", "putting"}
    /\ OthersMayRun
    /\ IF xp_task = NoTask
       THEN /\ xp_close_pc' = "closed"
            /\ UNCHANGED xp_queue
       ELSE IF QueueFull(xp_queue)
            THEN /\ xp_close_pc' = "putting"
                 /\ UNCHANGED xp_queue
            ELSE /\ xp_close_pc' = "joining"
                 /\ xp_queue' = Append(xp_queue, Sentinel)
    /\ xp_close_pc' # xp_close_pc
    /\ UNCHANGED <<cache_vars, stats_vars, ann_vars, irc_vars, time_vars, tm_vars, mon_vars, xp_task, xp_last_post_time, xp_pc, xp_job, xp_wake_at,
                   xp_starts, xp_next_id, xp_accepted, xp_dropped, xp_attempts, fs_files, fs_created>>

\* close: "await self._task" is over when the worker task has returned
TaskDoneAlways(task) == TRUE
TaskDone(task) == xp_pc[task] = "done"

\* close: "await self._task" returns when the worker task has ended
CloseReturn ==
    /\ xp_close_pc = "joining"
    /\ OthersMayRun
    /\ TaskDone(xp_task)
    /\ xp_close_pc' = "closed"
    /\ UNCHANGED <<cache_vars, stats_vars, ann_vars, irc_vars, time_vars, tm_vars, mon_vars, xp_queue, xp_task, xp_last_post_time, xp_pc, xp_job,
                   xp_wake_at, xp_starts, xp_next_id, xp_accepted, xp_dropped, xp_attempts,
                   fs_files, fs_created>>

PosterInit ==
    /\ xp_queue = <<>>
    /\ xp_task = NoTask
    /\ xp_last_post_time = 0
    /\ xp_pc = [w \in Workers |-> "none"]
    /\ xp_job = [w \in Workers |-> NoJob]
    /\ xp_wake_at = [w \in Workers |-> 0]
    /\ xp_close_pc = "none"
    /\ xp_starts = 0
    /\ xp_next_id = 1
    /\ xp_accepted = <<>>
    /\ xp_dropped = {}
    /\ xp_attempts = <<>>
    /\ fs_files = {}
    /\ fs_created = 0

-----------------------------------------------------------------------------
(* TwitchStreamMonitor *)

\* settings: the poll intervals, the buffer sizes and the secondary channels
twitch_stream_poll_interval_seconds == 30
youtube_poll_interval_seconds == 60
twitch_stream_sample_max_points == 2
youtube_sample_max_points == 2
youtube_channel_ids == <<"yt1", "yt2">>

\* 400 * 24 * 60 * 60
HISTORY_RETENTION_SECONDS == 34560000

StreamIds == {"s1", "s2"}
VideoIds == {"v1", "v2"}
UpcomingVideoIds == {"u1", "u2"}
ViewerCounts == {7}

YouTubeChannels == {youtube_channel_ids[i] : i \in 1..Len(youtube_channel_ids)}

\* Titles and channel labels are carried along and only read when the summary
\* text and the chart are built; they are left out of the records.
NoSession == [stream_id |-> NoValue]
NoChannelSession == [video_id |-> NoValue]
NoStreamInfo == [kind |-> "none"]
NoYouTubeInfo == [video_id |-> NoValue]
\* kind: what the iteration turned out to be; render: how the chart call ended;
\* next_id0, history0 and session0: the job counter, the history and the
\* session when it began; announced: the jobs its announcements and its
\* statistics post submitted; saves: the calls of
\* _save_youtube_upcoming_cache it made
NoIteration == [kind |-> "none", render |-> "none", next_id0 |-> 1, history0 |-> <<>>,
                session0 |-> NoSession, announced |-> 0, saves |-> 0]

\* what fetch_twitch_stream_info can give at local time now: an exception,
\* None, or a stream whose started_at is the platform's clock reading, which
\* may lie before or after the local clock
StartedAtChoices(now) == {now - ClockStep, now + ClockStep}
TwitchFetchResults(now) ==
    {[kind |-> "error"], [kind |-> "offline"]}
    \cup [kind : {"live"}, stream_id : StreamIds, started_at : StartedAtChoices(now),
          viewer_count : ViewerCounts]

\* what _fetch_youtube_stream_infos can give: per channel, nothing (not live,
\* or the fetch failed) or the live video
YouTubeFetchResults(now) ==
    [YouTubeChannels ->
        {NoYouTubeInfo}
        \cup [video_id : VideoIds, started_at : {now - ClockStep}, viewer_count : ViewerCounts]]
NoYouTubeInfos == [ch \in YouTubeChannels |-> NoYouTubeInfo]

\* deque(maxlen=n).append(x)
DequeAppendUnbounded(q, x, maxlen) == Append(q, x)
DequeAppend(q, x, maxlen) ==
    IF Len(q) >= maxlen THEN Append(Tail(q), x) ELSE Append(q, x)

\* _wait_for_next_poll: the shortest of the three poll intervals (the
\* secondary platform is configured)
PollInterval ==
    CHOOSE t \in {twitch_stream_poll_interval_seconds, youtube_poll_interval_seconds,
                  youtube_upcoming_poll_interval_seconds} :
        /\ t <= twitch_stream_poll_interval_seconds
        /\ t <= youtube_poll_interval_seconds
        /\ t <= youtube_upcoming_poll_interval_seconds

\* _fetch_youtube_stream_infos: skipped until the interval has passed
YouTubePollDue(now) == ~((now - mon_youtube_last_polled_at) < youtube_poll_interval_seconds)

\* _poll_once up to the fetches of the secondary platform: the token, the
\* primary fetch, now.  An exception ends the iteration; _run logs it and
\* goes on to _wait_for_next_poll.
PollOnceErrorEndsSession(result) ==
    /\ mon_pc = "wait"
    /\ ~mon_stop
    /\ wall >= mon_wait_until
    /\ xp_next_id <= MaxJobs
    /\ mon_polls < MaxPolls
    /\ mon_polls' = mon_polls + 1
    /\ mon_previous' = NoSession
    /\ IF result.kind = "error"
       THEN /\ mon_iter' = [NoIteration EXCEPT !.kind = "failed", !.next_id0 = xp_next_id,
                                               !.history0 = mon_stream_history,
                                               !.session0 = mon_session]
            /\ mon_wait_until' = wall + PollInterval
            /\ UNCHANGED <<mon_pc, mon_now, mon_stream_info, mon_youtube_infos, mon_fetched,
                           mon_youtube_last_polled_at>>
       ELSE /\ mon_iter' = [NoIteration EXCEPT !.kind = "polling", !.next_id0 = xp_next_id,
                                               !.history0 = mon_stream_history,
                                               !.session0 = mon_session]
            /\ mon_now' = wall
            /\ mon_stream_info' = result
            /\ mon_youtube_infos' = NoYouTubeInfos
            /\ mon_fetched' = NoYouTubeInfos
            /\ IF YouTubePollDue(wall)
               THEN /\ mon_youtube_last_polled_at' = wall
                    /\ mon_pc' = "fetching"
               ELSE /\ mon_pc' = "upcoming"
                    /\ UNCHANGED mon_youtube_last_polled_at
            /\ UNCHANGED mon_wait_until
    /\ mon_session' = IF result.kind = "error" THEN NoSession ELSE mon_session
    /\ UNCHANGED <<cache_vars, stats_vars, ann_vars, irc_vars, time_vars, tm_vars, xp_vars, mon_stream_history,
                   mon_stop>>
PollOnce(result) ==
    /\ mon_pc = "wait"
    /\ ~mon_stop
    /\ wall >= mon_wait_until
    /\ xp_next_id <= MaxJobs
    /\ mon_polls < MaxPolls
    /\ mon_polls' = mon_polls + 1
    /\ mon_previous' = NoSession
    /\ IF result.kind = "error"
       THEN /\ mon_iter' = [NoIteration EXCEPT !.kind = "failed", !.next_id0 = xp_next_id,
                                               !.history0 = mon_stream_history,
                                               !.session0 = mon_session]
            /\ mon_wait_until' = wall + PollInterval
            /\ UNCHANGED <<mon_pc, mon_now, mon_stream_info, mon_youtube_infos, mon_fetched,
                           mon_youtube_last_polled_at>>
       ELSE /\ mon_iter' = [NoIteration EXCEPT !.kind = "polling", !.next_id0 = xp_next_id,
                                               !.history0 = mon_stream_history,
                                               !.session0 = mon_session]
            /\ mon_now' = wall
            /\ mon_stream_info' = result
            /\ mon_youtube_infos' = NoYouTubeInfos
            /\ mon_fetched' = NoYouTubeInfos
            /\ IF YouTubePollDue(wall)
               THEN /\ mon_youtube_last_polled_at' = wall
                    /\ mon_pc' = "fetching"
               ELSE /\ mon_pc' = "upcoming"
                    /\ UNCHANGED mon_youtube_last_polled_at
            /\ UNCHANGED mon_wait_until
    /\ UNCHANGED <<cache_vars, stats_vars, ann_vars, irc_vars, time_vars, tm_vars, xp_vars, mon_session, mon_stream_history,
                   mon_stop>>

\* gather(..., return_exceptions=True): the exception a channel's fetch raised
\* stands in its place among the results
FetchRaised == [raised |-> TRUE]

\* what the gathered fetches can give: per channel an exception, None or the
\* live video
YouTubeGathered(now) ==
    [YouTubeChannels ->
        {FetchRaised, NoYouTubeInfo}
        \cup [video_id : VideoIds, started_at : {now - ClockStep}, viewer_count : ViewerCounts]]

\* _fetch_youtube_stream_infos, the loop over zip(channel_ids, fetched): a
\* channel whose result is an exception or None gets no entry
StreamInfosNoneIfAnyRaised(fetched) ==
    IF \E ch \in YouTubeChannels : fetched[ch] = FetchRaised
    THEN NoYouTubeInfos
    ELSE fetched
StreamInfosOf(fetched) ==
    [ch \in YouTubeChannels |->
        IF fetched[ch] = FetchRaised THEN NoYouTubeInfo
        ELSE IF fetched[ch] = NoYouTubeInfo THEN NoYouTubeInfo
        ELSE fetched[ch]]

\* _fetch_youtube_stream_infos: the gathered fetches have returned
FetchYouTubeStreamInfos(fetched) ==
    /\ mon_pc = "fetching"
    /\ mon_fetched' = fetched
    /\ mon_youtube_infos' = StreamInfosOf(fetched)
    /\ mon_pc' = "upcoming"
    /\ UNCHANGED <<cache_vars, stats_vars, ann_vars, irc_vars, time_vars, tm_vars, xp_vars, mon_session, mon_previous, mon_now,
                   mon_stream_info, mon_youtube_last_polled_at, mon_wait_until,
                   mon_stream_history, mon_iter, mon_polls, mon_stop>>

\* ---- the upcoming announcements and the monthly statistics of a poll

DaySeconds == 86400

\* the day of the year 1970 on which each month begins, counted from 0, and
\* the month keys f"{year:04d}-{month:02d}" of that year
MonthStartDays == <<0, 31, 59, 90, 120, 151, 181, 212, 243, 273, 304, 334>>
MonthKeys == <<"1970-01", "1970-02", "1970-03", "1970-04", "1970-05", "1970-06",
               "1970-07", "1970-08", "1970-09", "1970-10", "1970-11", "1970-12">>

\* datetime.fromtimestamp(now), for a time in 1970 and a local time zone
\* that is UTC
LocalDate(now) ==
    LET d == now \div DaySeconds
        m == CHOOSE k \in 1..12 :
                /\ MonthStartDays[k] <= d
                /\ \A j \in 1..12 : MonthStartDays[j] <= d => j <= k
    IN [month |-> m, day |-> d - MonthStartDays[m] + 1]

\* previous_month_key
PreviousMonthKey(now) ==
    IF LocalDate(now).month = 1 THEN "1969-12" ELSE MonthKeys[LocalDate(now).month - 1]

\* what the upcoming fetches of a poll can give at time now: per channel,
\* nothing (none scheduled, or the fetch failed) or the next scheduled video,
\* which starts now or later
NoUpcomingInfo == [video_id |-> NoValue, scheduled_start |-> 0]
UpcomingFetchResults(now) ==
    [YouTubeChannels ->
        {NoUpcomingInfo}
        \cup [video_id : UpcomingVideoIds, scheduled_start : {now, now + ClockStep}]]
NoUpcomingInfos == [ch \in YouTubeChannels |-> NoUpcomingInfo]

\* ---- the cache files

\* A cache file holds a JSON document. A JSON string or number is a record
\* of its type and its value, a JSON object of the history file a record of
\* its three members, and a document is a list of such items; NoFile is the
\* missing file and NotJson a file that json.load raises on.
JsonStr(text) == [type |-> "str", str |-> text, num |-> 0]
JsonNum(number) == [type |-> "num", str |-> "", num |-> number]
JsonDict(stream_id, started_at, ended_at) ==
    [type |-> "dict", stream_id |-> stream_id, started_at |-> started_at, ended_at |-> ended_at]
JsonList(items) == [type |-> "list", items |-> items]
NoFile == [type |-> "absent", items |-> <<>>]
NotJson == [type |-> "invalid", items |-> <<>>]

\* not item.strip()
Blank(text) == text \in {"", " "}

\* sorted(...) of a set of strings: the order of the strings of the model
SortOrder == <<"1969-12">> \o MonthKeys \o <<"u1", "u2">>
Sorted(strings) ==
    LET Member(text) == text \in strings
    IN SelectSeq(SortOrder, Member)

\* json.dump of sorted(...) of a set of strings:
\* _save_youtube_upcoming_cache and _save_monthly_stats_cache, when the
\* write succeeds
SaveStrings(strings) ==
    LET payload == Sorted(strings)
    IN JsonList([i \in 1..Len(payload) |-> JsonStr(payload[i])])

\* _load_youtube_upcoming_cache and _load_monthly_stats_cache
LoadStrings(file) ==
    IF file.type # "list"
    THEN {}
    ELSE {file.items[i].str :
            i \in {j \in DOMAIN file.items :
                      file.items[j].type = "str" /\ ~Blank(file.items[j].str)}}

\* _save_stream_history_cache, when the write succeeds
SaveStreamHistory(history) ==
    JsonList([i \in 1..Len(history) |->
                JsonDict(JsonStr(history[i].stream_id),
                         JsonNum(history[i].started_at),
                         JsonNum(history[i].ended_at))])

\* _load_stream_history_cache
LoadStreamHistory(file) ==
    IF file.type # "list"
    THEN <<>>
    ELSE LET Valid(item) ==
                 /\ item.type = "dict"
                 /\ item.started_at.type = "num"
                 /\ item.ended_at.type = "num"
                 /\ item.stream_id.type = "str"
                 /\ ~Blank(item.stream_id.str)
                 /\ ~(item.ended_at.num <= item.started_at.num)
             kept == SelectSeq(file.items, Valid)
         IN [i \in 1..Len(kept) |->
                [stream_id |-> kept[i].stream_id.str,
                 started_at |-> kept[i].started_at.num,
                 ended_at |-> kept[i].ended_at.num]]

\* _post_youtube_upcoming_infos, the test of one result against the set
AlreadyPostedNever(video_id, posted) == FALSE
AlreadyPosted(video_id, posted) == video_id \in posted

\* _post_youtube_upcoming_infos: "if upcoming_info.scheduled_start <= now"
StartPassedStrictly(scheduled_start, now) == scheduled_start < now
StartPassed(scheduled_start, now) == scheduled_start <= now

\* _post_youtube_upcoming_infos: the loop over the results in channel order,
\* from channel number i on; posted is the set so far and announced the ids
\* a job has been submitted for so far
RECURSIVE PostYouTubeUpcomingInfos(_, _, _, _, _)
PostYouTubeUpcomingInfos(infos, now, i, posted, announced) ==
    IF i > Len(youtube_channel_ids)
    THEN [posted |-> posted, announced |-> announced]
    ELSE LET info == infos[youtube_channel_ids[i]]
         IN IF \/ info = NoUpcomingInfo
               \/ AlreadyPosted(info.video_id, posted)
               \/ StartPassed(info.scheduled_start, now)
            THEN PostYouTubeUpcomingInfos(infos, now, i + 1, posted, announced)
            ELSE PostYouTubeUpcomingInfos(infos, now, i + 1,
                                          posted \cup {info.video_id},
                                          Append(announced, info.video_id))

\* _maybe_post_monthly_stats: the statistics are due
MonthlyStatsDueAnyDay(now, posted) == PreviousMonthKey(now) \notin posted
MonthlyStatsDue(now, posted) ==
    LocalDate(now).day = 1 /\ PreviousMonthKey(now) \notin posted

\* _post_youtube_upcoming_infos: "if posted_any:
\* self._save_youtube_upcoming_cache()", after the loop
UpcomingCacheSaves(announced) == IF Len(announced) > 0 THEN 1 ELSE 0

\* _poll_once from the upcoming fetches to the live/offline branch:
\* _fetch_youtube_upcoming_infos (results is what the gathered fetches give
\* when they are made), _post_youtube_upcoming_infos and
\* _maybe_post_monthly_stats
AnnouncePoll(results) ==
    /\ mon_pc = "upcoming"
    /\ IF UpcomingPollDue(mon_now)
       THEN mon_upcoming_last_polled_at' = mon_now
       ELSE results = NoUpcomingInfos /\ UNCHANGED mon_upcoming_last_polled_at
    /\ ann_results' = results
    /\ LET up == PostYouTubeUpcomingInfos(results, mon_now, 1, mon_upcoming_posted_ids, <<>>)
           monthly == MonthlyStatsDue(mon_now, mon_monthly_stats_posted)
       IN /\ mon_upcoming_posted_ids' = up.posted
          /\ fs_upcoming_cache' =
                IF UpcomingCacheSaves(up.announced) > 0
                THEN SaveStrings(up.posted) ELSE fs_upcoming_cache
          /\ fs_monthly_cache' =
                IF monthly
                THEN SaveStrings(mon_monthly_stats_posted \cup {PreviousMonthKey(mon_now)})
                ELSE fs_monthly_cache
          /\ ann_upcoming_log' = ann_upcoming_log \o up.announced
          /\ mon_monthly_stats_posted' =
                IF monthly THEN mon_monthly_stats_posted \cup {PreviousMonthKey(mon_now)}
                ELSE mon_monthly_stats_posted
          /\ ann_monthly_log' =
                IF monthly THEN Append(ann_monthly_log, PreviousMonthKey(mon_now))
                ELSE ann_monthly_log
          /\ QueueBecomes(PutTexts(QueueState, Len(up.announced) + (IF monthly THEN 1 ELSE 0)))
          /\ mon_iter' = [mon_iter EXCEPT
                             !.announced = Len(up.announced) + (IF monthly THEN 1 ELSE 0),
                             !.saves = UpcomingCacheSaves(up.announced)]
    /\ mon_pc' = "polled"
    /\ UNCHANGED <<fs_history_cache, stats_vars, irc_vars, time_vars, tm_vars, xp_task, xp_last_post_time, xp_pc, xp_job,
                   xp_wake_at, xp_close_pc, xp_starts, xp_attempts, fs_files, fs_created,
                   mon_session, mon_previous, mon_now, mon_stream_info, mon_youtube_infos, mon_fetched,
                   mon_youtube_last_polled_at, mon_wait_until, mon_stream_history, mon_polls, mon_stop>>

\* elif self._session.stream_id != stream_info.stream_id
SessionSupersededAlways(session, stream_info) == TRUE
SessionSuperseded(session, stream_info) == session.stream_id # stream_info.stream_id

NewSession(stream_info) ==
    [stream_id |-> stream_info.stream_id,
     started_at |-> stream_info.started_at,
     samples |-> <<>>,
     youtube_channels |-> [ch \in YouTubeChannels |-> NoChannelSession]]

\* the loop over youtube_infos: a channel session is created when there is
\* none or the video changed, else updated in place; then its sample is added
WithYouTubeSample(channel_session, info, now) ==
    LET base == IF channel_session = NoChannelSession
                   \/ channel_session.video_id # info.video_id
                THEN [video_id |-> info.video_id, started_at |-> info.started_at,
                      samples |-> <<>>]
                ELSE [channel_session EXCEPT !.started_at = info.started_at]
    IN [base EXCEPT !.samples =
            DequeAppend(base.samples, [timestamp |-> now, viewer_count |-> info.viewer_count],
                        youtube_sample_max_points)]

\* the block of _handle_stream_live under the session lock, applied to the
\* session that is active after the create-or-replace step
WithSamples(session, stream_info, infos, now) ==
    [session EXCEPT
        !.samples = DequeAppend(session.samples,
                        [timestamp |-> now, viewer_count |-> stream_info.viewer_count],
                        twitch_stream_sample_max_points),
        !.youtube_channels = [ch \in YouTubeChannels |->
            IF infos[ch] = NoYouTubeInfo THEN session.youtube_channels[ch]
            ELSE WithYouTubeSample(session.youtube_channels[ch], infos[ch], now)]]

\* the locals of a poll iteration are gone when it ends
IterationEnds ==
    /\ mon_pc' = "wait"
    /\ mon_wait_until' = wall + PollInterval
    /\ mon_stream_info' = NoStreamInfo
    /\ mon_youtube_infos' = NoYouTubeInfos
    /\ mon_fetched' = NoYouTubeInfos

\* _handle_stream_live up to the call of _post_session_summary
HandleStreamLiveSampleFirst ==
    /\ mon_pc = "polled"
    /\ mon_stream_info.kind = "live"
    /\ IF mon_session = NoSession
       THEN /\ mon_session' = WithSamples(NewSession(mon_stream_info), mon_stream_info,
                                          mon_youtube_infos, mon_now)
            /\ mon_iter' = [mon_iter EXCEPT !.kind = "created"]
            /\ IterationEnds
            /\ UNCHANGED mon_previous
       ELSE IF SessionSuperseded(mon_session, mon_stream_info)
       THEN /\ mon_previous' = WithSamples(mon_session, mon_stream_info,
                                           mon_youtube_infos, mon_now)
            /\ mon_session' = NewSession(mon_stream_info)
            /\ mon_iter' = [mon_iter EXCEPT !.kind = "replaced"]
            /\ mon_pc' = "summary"
            /\ UNCHANGED <<mon_wait_until, mon_stream_info, mon_youtube_infos, mon_fetched>>
       ELSE /\ mon_session' = WithSamples(mon_session, mon_stream_info,
                                          mon_youtube_infos, mon_now)
            /\ mon_iter' = [mon_iter EXCEPT !.kind = "continued"]
            /\ IterationEnds
            /\ UNCHANGED mon_previous
    /\ UNCHANGED <<cache_vars, stats_vars, ann_vars, irc_vars, time_vars, tm_vars, xp_vars, mon_now, mon_youtube_last_polled_at,
                   mon_stream_history, mon_polls, mon_stop>>
HandleStreamLive ==
    /\ mon_pc = "polled"
    /\ mon_stream_info.kind = "live"
    /\ IF mon_session = NoSession
       THEN /\ mon_session' = WithSamples(NewSession(mon_stream_info), mon_stream_info,
                                          mon_youtube_infos, mon_now)
            /\ mon_iter' = [mon_iter EXCEPT !.kind = "created"]
            /\ IterationEnds
            /\ UNCHANGED mon_previous
       ELSE IF SessionSuperseded(mon_session, mon_stream_info)
       THEN /\ mon_previous' = mon_session
            /\ mon_session' = WithSamples(NewSession(mon_stream_info), mon_stream_info,
                                          mon_youtube_infos, mon_now)
            /\ mon_iter' = [mon_iter EXCEPT !.kind = "replaced"]
            /\ mon_pc' = "summary"
            /\ UNCHANGED <<mon_wait_until, mon_stream_info, mon_youtube_infos, mon_fetched>>
       ELSE /\ mon_session' = WithSamples(mon_session, mon_stream_info,
                                          mon_youtube_infos, mon_now)
            /\ mon_iter' = [mon_iter EXCEPT !.kind = "continued"]
            /\ IterationEnds
            /\ UNCHANGED mon_previous
    /\ UNCHANGED <<cache_vars, stats_vars, ann_vars, irc_vars, time_vars, tm_vars, xp_vars, mon_now, mon_youtube_last_polled_at,
                   mon_stream_history, mon_polls, mon_stop>>

\* _handle_stream_offline up to the call of _post_session_summary
HandleStreamOffline ==
    /\ mon_pc = "polled"
    /\ mon_stream_info.kind = "offline"
    /\ mon_session' = NoSession
    /\ IF mon_session = NoSession
       THEN /\ mon_iter' = [mon_iter EXCEPT !.kind = "idle"]
            /\ IterationEnds
            /\ UNCHANGED mon_previous
       ELSE /\ mon_previous' = mon_session
            /\ mon_iter' = [mon_iter EXCEPT !.kind = "ended"]
            /\ mon_pc' = "summary"
            /\ UNCHANGED <<mon_wait_until, mon_stream_info, mon_youtube_infos, mon_fetched>>
    /\ UNCHANGED <<cache_vars, stats_vars, ann_vars, irc_vars, time_vars, tm_vars, xp_vars, mon_now, mon_youtube_last_polled_at,
                   mon_stream_history, mon_polls, mon_stop>>

\* _record_stream_history: "if ended_at <= started_at: return"
HistoryRecordableOrEqual(started_at, ended_at) == ended_at >= started_at
HistoryRecordable(started_at, ended_at) == ~(ended_at <= started_at)

\* _record_stream_history: the history after the call
RecordStreamHistoryAppendOnly(history, session, ended_at, time_now) ==
    IF ~HistoryRecordable(session.started_at, ended_at)
    THEN history
    ELSE Append(history, [stream_id |-> session.stream_id,
                          started_at |-> session.started_at,
                          ended_at |-> ended_at])
RecordStreamHistory(history, session, ended_at, time_now) ==
    IF ~HistoryRecordable(session.started_at, ended_at)
    THEN history
    ELSE LET record == [stream_id |-> session.stream_id,
                        started_at |-> session.started_at,
                        ended_at |-> ended_at]
             OtherId(item) == item.stream_id # session.stream_id
             cutoff == time_now - HISTORY_RETENTION_SECONDS
             Recent(item) == item.ended_at >= cutoff
         IN SelectSeq(Append(SelectSeq(history, OtherId), record), Recent)

\* _post_session_summary for the detached session: the history record, the
\* chart file, the chart (which may raise, and then _run logs the exception),
\* the summary text and enqueue_media
PostSessionSummary(render_ok) ==
    /\ mon_pc = "summary"
    /\ mon_stream_history' = RecordStreamHistory(mon_stream_history, mon_previous, mon_now, wall)
    /\ fs_history_cache' =
          IF HistoryRecordable(mon_previous.started_at, mon_now)
          THEN SaveStreamHistory(mon_stream_history')
          ELSE fs_history_cache
    /\ CreateGraphPath
    /\ IF render_ok
       THEN EnqueueMedia("text", fs_created + 1, fs_created + 1)
       ELSE UNCHANGED <<xp_next_id, xp_queue, xp_accepted, xp_dropped>>
    /\ mon_iter' = [mon_iter EXCEPT !.render = IF render_ok THEN "ok" ELSE "raised"]
    /\ IterationEnds
    /\ UNCHANGED <<fs_upcoming_cache, fs_monthly_cache, stats_vars, ann_vars, irc_vars, time_vars, tm_vars, xp_task, xp_last_post_time, xp_pc, xp_job, xp_wake_at,
                   xp_close_pc, xp_starts, xp_attempts, mon_session, mon_previous, mon_now,
                   mon_youtube_last_polled_at, mon_polls, mon_stop>>

\* ---- stop, and the end of _run

\* stop: the event is set; run_bot calls it once the listener has returned
MonitorStop ==
    /\ ~mon_stop
    /\ mon_pc # "returned"
    /\ mon_stop' = TRUE
    /\ UNCHANGED <<cache_vars, stats_vars, ann_vars, irc_vars, time_vars, tm_vars, xp_vars, mon_pc, mon_session, mon_previous,
                   mon_now, mon_stream_info, mon_youtube_infos, mon_fetched, mon_youtube_last_polled_at,
                   mon_wait_until, mon_stream_history, mon_iter, mon_polls>>

\* _wait_for_next_poll returns as soon as the event is set, and the loop test
\* of _run ends the loop
MonitorReturnsAfterFailure ==
    /\ mon_pc = "wait"
    /\ mon_stop \/ mon_iter.kind = "failed"
    /\ mon_pc' = "returned"
    /\ UNCHANGED <<cache_vars, stats_vars, ann_vars, irc_vars, time_vars, tm_vars, xp_vars, mon_session, mon_previous,
                   mon_now, mon_stream_info, mon_youtube_infos, mon_fetched, mon_youtube_last_polled_at,
                   mon_wait_until, mon_stream_history, mon_iter, mon_polls, mon_stop>>
MonitorReturnsRecordsSession ==
    /\ mon_pc = "wait"
    /\ mon_stop
    /\ mon_pc' = "returned"
    /\ mon_stream_history' =
          IF mon_session = NoSession
          THEN mon_stream_history
          ELSE RecordStreamHistory(mon_stream_history, mon_session, wall, wall)
    /\ UNCHANGED <<cache_vars, stats_vars, ann_vars, irc_vars, time_vars, tm_vars, xp_vars, mon_session, mon_previous,
                   mon_now, mon_stream_info, mon_youtube_infos, mon_fetched, mon_youtube_last_polled_at,
                   mon_wait_until, mon_iter, mon_polls, mon_stop>>
MonitorReturns ==
    /\ mon_pc = "wait"
    /\ mon_stop
    /\ mon_pc' = "returned"
    /\ UNCHANGED <<cache_vars, stats_vars, ann_vars, irc_vars, time_vars, tm_vars, xp_vars, mon_session, mon_previous,
                   mon_now, mon_stream_info, mon_youtube_infos, mon_fetched, mon_youtube_last_polled_at,
                   mon_wait_until, mon_stream_history, mon_iter, mon_polls, mon_stop>>

\* _wait_for_next_poll: the timeout of wait_for has not expired yet
WaitPassesDespiteStop ==
    /\ mon_pc = "wait"
    /\ wall < mon_wait_until
    /\ clock' = clock + ClockStep
    /\ wall' = wall + ClockStep
    /\ UNCHANGED <<cache_vars, stats_vars, ann_vars, irc_vars, tm_vars, xp_vars, mon_vars>>
WaitPasses ==
    /\ mon_pc = "wait"
    /\ ~mon_stop
    /\ wall < mon_wait_until
    /\ clock' = clock + ClockStep
    /\ wall' = wall + ClockStep
    /\ UNCHANGED <<cache_vars, stats_vars, ann_vars, irc_vars, tm_vars, xp_vars, mon_vars>>

\* ---- _calculate_monthly_stats

\* The timestamps of a history record are floats (ended_at is a reading of
\* time.time()). Where the statistics are computed, a timestamp is a whole
\* number of ticks, TicksPerSecond ticks to the second.
TicksPerSecond == 2

\* datetime.fromtimestamp(t).date(), as the number of the day (local time UTC)
StatsDate(timestamp) == timestamp \div (DaySeconds * TicksPerSecond)

Larger(a, b) == IF a >= b THEN a ELSE b
Smaller(a, b) == IF a <= b THEN a ELSE b

\* last_date of one overlap
LastDateOfEnd(overlap_start, overlap_end) == StatsDate(overlap_end)
LastDate(overlap_start, overlap_end) ==
    StatsDate(Larger(overlap_start, overlap_end - TicksPerSecond))

\* the while loop: the dates from current_date to last_date
DatesThrough(current_date, last_date) == current_date .. last_date

\* _calculate_monthly_stats: the loop over self._stream_history from item
\* number i on, with the active days and the total so far; the total is in
\* ticks
RECURSIVE CalculateMonthlyStatsFrom(_, _, _, _, _, _)
CalculateMonthlyStatsFrom(history, start_timestamp, end_timestamp, i, active_days, total_seconds) ==
    IF i > Len(history)
    THEN [total_days |-> Cardinality(active_days), total_seconds |-> total_seconds]
    ELSE LET started_at == history[i].started_at
             ended_at == history[i].ended_at
             overlap_start == Larger(started_at, start_timestamp)
             overlap_end == Smaller(ended_at, end_timestamp)
         IN IF ended_at <= start_timestamp \/ started_at >= end_timestamp
            THEN CalculateMonthlyStatsFrom(history, start_timestamp, end_timestamp, i + 1,
                                           active_days, total_seconds)
            ELSE IF overlap_end <= overlap_start
            THEN CalculateMonthlyStatsFrom(history, start_timestamp, end_timestamp, i + 1,
                                           active_days, total_seconds)
            ELSE CalculateMonthlyStatsFrom(
                     history, start_timestamp, end_timestamp, i + 1,
                     active_days \cup DatesThrough(StatsDate(overlap_start),
                                                   LastDate(overlap_start, overlap_end)),
                     total_seconds + (overlap_end - overlap_start))

NoStatsCall == [start_timestamp |-> 0, end_timestamp |-> 0, total_days |-> 0, total_seconds |-> 0]

\* one call of _calculate_monthly_stats
CalculateMonthlyStats(start_timestamp, end_timestamp) ==
    /\ LET result == CalculateMonthlyStatsFrom(mon_stream_history, start_timestamp,
                                               end_timestamp, 1, {}, 0)
       IN stats_call' = [start_timestamp |-> start_timestamp,
                         end_timestamp |-> end_timestamp,
                         total_days |-> result.total_days,
                         total_seconds |-> result.total_seconds]
    /\ UNCHANGED <<cache_vars, ann_vars, irc_vars, time_vars, tm_vars, xp_vars, mon_vars>>

\* __init__: the history is loaded from its cache file
LoadHistory == mon_stream_history = LoadStreamHistory(fs_history_cache)

\* __init__ when there is no history cache file: the load gives no records
NoHistory == fs_history_cache = NoFile /\ LoadHistory

\* __init__, the fields that no cache file is read for
MonitorFields ==
    /\ mon_pc = "wait"
    /\ mon_session = NoSession
    /\ mon_previous = NoSession
    /\ mon_now = 0
    /\ mon_stream_info = NoStreamInfo
    /\ mon_youtube_infos = NoYouTubeInfos
    /\ mon_fetched = NoYouTubeInfos
    /\ mon_youtube_last_polled_at = 0
    /\ mon_wait_until = 0
    /\ mon_iter = NoIteration
    /\ mon_polls = 0
    /\ mon_stop = FALSE
    /\ mon_upcoming_last_polled_at = 0
    /\ ann_upcoming_log = <<>>
    /\ ann_monthly_log = <<>>
    /\ ann_results = NoUpcomingInfos
    /\ stats_call = NoStatsCall

MonitorInit == MonitorFields /\ NoHistory

\* __init__: the two sets are loaded from their cache files
LoadSets ==
    /\ mon_upcoming_posted_ids = LoadStrings(fs_upcoming_cache)
    /\ mon_monthly_stats_posted = LoadStrings(fs_monthly_cache)

\* __init__ when there are no cache files: the two loads give empty sets
NoCaches ==
    /\ fs_upcoming_cache = NoFile
    /\ fs_monthly_cache = NoFile
    /\ LoadSets

-----------------------------------------------------------------------------
(* TwitchIRCListener: _handle_irc_line *)

\* Text is a sequence of characters here, so that the parsing and the
\* formatting are computed as the code computes them.

MAX_TWEET_LENGTH == 280

\* POST_HEADER, which is 9 characters long (written with placeholders)
POST_HEADER == <<"[", "h", "e", "a", "d", "e", "r", "!", "]">>

\* TARGET_TWITCH_USER_LOWER
TARGET_TWITCH_USER_LOWER == <<"h", "i", "k", "a", "k", "i", "n">>

\* settings.twitch_channel, which normalize_channel_name has put in lower case
twitch_channel == <<"t", "v">>

\* the characters that the pattern \s matches, of those a line can hold
Whitespace == {" ", "\t"}

\* str.lower(), on the letters that occur
UpperToLower == [c \in {"H", "K", "T", "V"} |->
                    CASE c = "H" -> "h" [] c = "K" -> "k" [] c = "T" -> "t" [] c = "V" -> "v"]
LowerChar(c) == IF c \in DOMAIN UpperToLower THEN UpperToLower[c] ELSE c
LowerIdentity(text) == text
Lower(text) == [i \in 1..Len(text) |-> LowerChar(text[i])]

\* text[n:]
Drop(text, n) == SubSeq(text, n + 1, Len(text))

\* text.startswith(prefix)
StartsWith(text, prefix) ==
    Len(text) >= Len(prefix) /\ SubSeq(text, 1, Len(prefix)) = prefix

\* the position of the first c in text, 0 if there is none
IndexOf(text, c) ==
    IF \E i \in 1..Len(text) : text[i] = c
    THEN CHOOSE i \in 1..Len(text) : text[i] = c /\ \A j \in 1..(i - 1) : text[j] # c
    ELSE 0

\* strip_irc_tags: a line that starts with "@" loses everything up to and
\* with its first space, and is empty if it has no space
StripIrcTags(line) ==
    IF ~StartsWith(line, <<"@">>)
    THEN line
    ELSE LET sp == IndexOf(line, " ")
         IN IF sp = 0 THEN <<>> ELSE Drop(line, sp)

NoParse == [matched |-> FALSE, user |-> <<>>, channel |-> <<>>, message |-> <<>>]

\* parse_privmsg, PRIVMSG_PATTERN:
\*   ^:(?P<user>[^!]+)![^ ]+ PRIVMSG #(?P<channel>[^ ]+) :(?P<message>.*)$
\* [^!]+ ends at the first "!" and each [^ ]+ at the next space, so the
\* match, if there is one, is unique
ParsePrivmsg(line) ==
    IF ~StartsWith(line, <<":">>) THEN NoParse
    ELSE
    LET r1 == Drop(line, 1)
        bang == IndexOf(r1, "!")
    IN IF bang <= 1 THEN NoParse
    ELSE
    LET r2 == Drop(r1, bang)
        sp == IndexOf(r2, " ")
    IN IF sp <= 1 THEN NoParse
    ELSE
    LET r3 == Drop(r2, sp - 1)
    IN IF ~StartsWith(r3, <<" ", "P", "R", "I", "V", "M", "S", "G", " ", "#">>) THEN NoParse
    ELSE
    LET r4 == Drop(r3, 10)
        sp2 == IndexOf(r4, " ")
    IN IF sp2 <= 1 THEN NoParse
    ELSE
    LET r5 == Drop(r4, sp2 - 1)
    IN IF ~StartsWith(r5, <<" ", ":">>) THEN NoParse
    ELSE [matched |-> TRUE,
          user |-> SubSeq(r1, 1, bang - 1),
          channel |-> SubSeq(r4, 1, sp2 - 1),
          message |-> Drop(r5, 2)]

\* re.sub(r"\s+", " ", text): every run of whitespace becomes one space.
\* Computed by halves: the runs inside each half are collapsed, and a run
\* that spans the cut is collapsed where the halves meet.
RECURSIVE CollapseWhitespace(_)
CollapseWhitespace(text) ==
    IF Len(text) = 0 THEN <<>>
    ELSE IF Len(text) = 1 THEN (IF text[1] \in Whitespace THEN <<" ">> ELSE text)
    ELSE LET half == Len(text) \div 2
             left == CollapseWhitespace(SubSeq(text, 1, half))
             right == CollapseWhitespace(SubSeq(text, half + 1, Len(text)))
         IN IF left[Len(left)] = " " /\ right[1] = " "
            THEN left \o Tail(right)
            ELSE left \o right

\* str.strip()
RECURSIVE StripLeft(_)
StripLeft(text) ==
    IF text # <<>> /\ Head(text) \in Whitespace THEN StripLeft(Tail(text)) ELSE text
RECURSIVE StripRight(_)
StripRight(text) ==
    IF text # <<>> /\ text[Len(text)] \in Whitespace
    THEN StripRight(SubSeq(text, 1, Len(text) - 1)) ELSE text

\* normalize_message_text
NormalizeStripOnly(text) == StripRight(StripLeft(text))
NormalizeMessageText(text) == StripRight(StripLeft(CollapseWhitespace(text)))

\* truncate_for_x
TruncateForX(text, max_length) ==
    IF Len(text) <= max_length THEN text
    ELSE IF max_length <= 3 THEN SubSeq(text, 1, max_length)
    ELSE SubSeq(text, 1, max_length - 3) \o <<".", ".", ".">>

\* build_tweet
BuildTweet(message) ==
    TruncateForX(POST_HEADER \o <<"\n", "\n">> \o message, MAX_TWEET_LENGTH)

\* ---- the lines the server can send, each with what it was built from

\* nicknames, and whether they are the target participant in some casing
IrcUsers ==
    {[chars |-> <<"h", "i", "k", "a", "k", "i", "n">>, target |-> TRUE],
     [chars |-> <<"H", "i", "k", "a", "K", "i", "n">>, target |-> TRUE],
     [chars |-> <<"h", "i", "k", "a", "k", "i", "m">>, target |-> FALSE]}

\* channel names, and whether they are the configured channel in some casing
IrcChannels ==
    {[chars |-> <<"t", "v">>, configured |-> TRUE],
     [chars |-> <<"T", "V">>, configured |-> TRUE],
     [chars |-> <<"t", "v", "2">>, configured |-> FALSE]}

\* a body longer than a post can hold after the header
LongBody == [i \in 1..(MAX_TWEET_LENGTH - 10) |-> "x"]

\* message bodies, each with its whitespace-normalized form
IrcMessages ==
    {[raw |-> <<"h", "i">>, norm |-> <<"h", "i">>],
     [raw |-> <<" ", "a", " ", "\t", " ", "b", " ", " ", "c", " ">>, norm |-> <<"a", " ", "b", " ", "c">>],
     [raw |-> <<" ", "\t", " ">>, norm |-> <<>>],
     [raw |-> LongBody, norm |-> LongBody]}

\* the tag prefix of a line, if it has one
IrcTags == {<<>>, <<"@", "k", "=", "v", " ">>}

NoUser == [chars |-> <<>>, target |-> FALSE]
NoChannel == [chars |-> <<>>, configured |-> FALSE]
NoMessage == [raw |-> <<>>, norm |-> <<>>]

\* chat lines: [@tags ]:user!user@host PRIVMSG #channel :body
ChatLines ==
    [kind : {"chat"}, tags : IrcTags, user : IrcUsers, channel : IrcChannels,
     message : IrcMessages, text : {<<>>}]

\* lines that are no chat lines: two keep-alive probes, a bare PING, a
\* numeric reply, a JOIN,
\* and PRIVMSG lines that lack the leading colon, the "!" or the body
OtherLines ==
    [kind : {"other"}, tags : IrcTags, user : {NoUser}, channel : {NoChannel},
     message : {NoMessage},
     text : {<<"P", "I", "N", "G", " ", ":", "t", "m", "i">>,
             <<"P", "I", "N", "G", " ", "a", " ", "b">>,
             <<"P", "I", "N", "G">>,
             <<":", "t", "m", "i", " ", "0", "0", "1", " ", "b", "o", "t", " ", ":", "h", "i">>,
             <<":", "h", "i", "k", "a", "k", "i", "n", "!", "h", " ", "J", "O", "I", "N", " ", "#", "t", "v">>,
             <<"h", "i", "k", "a", "k", "i", "n", "!", "h", " ", "P", "R", "I", "V", "M", "S", "G", " ", "#", "t", "v", " ", ":", "h", "i">>,
             <<":", "h", "i", "k", "a", "k", "i", "n", " ", "P", "R", "I", "V", "M", "S", "G", " ", "#", "t", "v", " ", ":", "h", "i">>,
             <<":", "h", "i", "k", "a", "k", "i", "n", "!", "h", " ", "P", "R", "I", "V", "M", "S", "G", " ", "#", "t", "v">>}]

IrcLines == ChatLines \cup OtherLines

\* the characters of a line as readline delivers it, without its line end
Render(w) ==
    IF w.kind = "chat"
    THEN w.tags \o <<":">> \o w.user.chars \o <<"!", "u", "@", "h", " ", "P", "R", "I", "V", "M", "S", "G", " ", "#">>
            \o w.channel.chars \o <<" ", ":">> \o w.message.raw
    ELSE w.tags \o w.text

\* _handle_irc_line: "channel.lower() != self._settings.twitch_channel" and
\* "author.lower() != TARGET_TWITCH_USER_LOWER" are the two rejections
ChannelMatches(channel) == Lower(channel) = twitch_channel
AuthorMatchesAny(user) == TRUE
AuthorMatches(user) == Lower(user) = TARGET_TWITCH_USER_LOWER

\* line: the line; queue0, next_id0 and written0: the queue, the job counter
\* and the lines written when it arrived
NoLine == [line |-> [kind |-> "none", tags |-> <<>>, user |-> NoUser, channel |-> NoChannel,
                     message |-> NoMessage, text |-> <<>>],
           queue0 |-> <<>>, next_id0 |-> 0, written0 |-> <<>>]

\* ---- run and _connect_and_listen

TWITCH_RECONNECT_DELAY_SECONDS == 5

\* what get_access_token can return to the listener
IrcTokens == {<<"a", "1">>, <<"o", "a", "u", "t", "h", ":", "a", "2">>}

\* self._nick
Nick == <<"b", "o", "t">>

\* normalize_twitch_token
NormalizeTwitchToken(token) ==
    IF StartsWith(token, <<"o", "a", "u", "t", "h", ":">>)
    THEN token
    ELSE <<"o", "a", "u", "t", "h", ":">> \o token

\* the three lines _connect_and_listen writes to a new connection
HandshakeLinesJoinFirst(pass_value, nick, channel) ==
    <<<<"J", "O", "I", "N", " ", "#">> \o channel,
      <<"P", "A", "S", "S", " ">> \o pass_value,
      <<"N", "I", "C", "K", " ">> \o nick>>
HandshakeLines(pass_value, nick, channel) ==
    <<<<"P", "A", "S", "S", " ">> \o pass_value,
      <<"N", "I", "C", "K", " ">> \o nick,
      <<"J", "O", "I", "N", " ", "#">> \o channel>>

\* n: the number of the call of _connect_and_listen; token_call: the number of
\* the get_access_token call that gave pass_value (0 = none has returned);
\* opened: open_connection has returned; drained: the drain after the three
\* lines has returned; reads: the lines read; ended: how the call ended
\* ("" = it has not); prev_ended: how the call before it ended
NoAttempt == [n |-> 0, token_call |-> 0, pass_value |-> <<>>, opened |-> FALSE,
              drained |-> FALSE, reads |-> 0, ended |-> "", prev_ended |-> ""]

\* run: "while not self._stop_event.is_set()" and, when it is not set, the
\* call of _connect_and_listen up to its first await, get_access_token
RunLoopTest ==
    IF irc_stop
    THEN /\ irc_pc' = "returned"
         /\ UNCHANGED <<irc_token_calls, irc_attempt>>
    ELSE /\ irc_pc' = "token"
         /\ irc_token_calls' = irc_token_calls + 1
         /\ irc_attempt' = [NoAttempt EXCEPT !.n = irc_attempt.n + 1,
                                             !.prev_ended = irc_attempt.ended]

\* run: _connect_and_listen has returned or raised in the way how; "if not
\* self._stop_event.is_set(): await asyncio.sleep(...)", else the loop test
AfterAttemptNoSleep(how) ==
    /\ irc_attempt' = [irc_attempt EXCEPT !.ended = how]
    /\ irc_pc' = IF irc_stop THEN "returned" ELSE "sleeping"
    /\ irc_wake_at' = clock
AfterAttemptStopIgnored(how) ==
    /\ irc_attempt' = [irc_attempt EXCEPT !.ended = how]
    /\ irc_pc' = "sleeping"
    /\ irc_wake_at' = clock + TWITCH_RECONNECT_DELAY_SECONDS
AfterAttempt(how) ==
    /\ irc_attempt' = [irc_attempt EXCEPT !.ended = how]
    /\ IF irc_stop
       THEN irc_pc' = "returned" /\ UNCHANGED irc_wake_at
       ELSE irc_pc' = "sleeping" /\ irc_wake_at' = clock + TWITCH_RECONNECT_DELAY_SECONDS

\* the frame of the steps of the listener that submit no job
ListenerOnly ==
    UNCHANGED <<cache_vars, stats_vars, ann_vars, time_vars, tm_vars, mon_vars, xp_vars>>

\* run is called
ListenerRun ==
    /\ irc_pc = "idle"
    /\ RunLoopTest
    /\ UNCHANGED <<irc_last, irc_count, irc_written, irc_stop, irc_stop_pc, irc_wake_at, irc_conns, irc_closes>>
    /\ ListenerOnly

\* stop is called, by whoever holds the listener
ListenerStop ==
    /\ ~irc_stop
    /\ irc_pc # "returned"
    /\ irc_stop' = TRUE
    /\ irc_stop_pc' = irc_pc
    /\ UNCHANGED <<irc_last, irc_count, irc_written, irc_pc, irc_wake_at, irc_token_calls,
                   irc_conns, irc_closes, irc_attempt>>
    /\ ListenerOnly

\* build_twitch_credentials: get_access_token returns token, or raises
TokenReturns(ok, token) ==
    /\ irc_pc = "token"
    /\ IF ok
       THEN /\ irc_attempt' = [irc_attempt EXCEPT !.token_call = irc_token_calls,
                                                  !.pass_value = NormalizeTwitchToken(token)]
            /\ irc_pc' = "connecting"
            /\ UNCHANGED irc_wake_at
       ELSE AfterAttempt("token")
    /\ UNCHANGED <<irc_last, irc_count, irc_written, irc_stop, irc_stop_pc, irc_token_calls, irc_conns, irc_closes>>
    /\ ListenerOnly

\* asyncio.open_connection returns, and the three lines are written to the
\* new connection; or it raises
Connected(ok) ==
    /\ irc_pc = "connecting"
    /\ IF ok
       THEN /\ irc_conns' = irc_conns + 1
            /\ UNCHANGED irc_closes
            /\ irc_attempt' = [irc_attempt EXCEPT !.opened = TRUE]
            /\ irc_written' = HandshakeLines(irc_attempt.pass_value, Nick, twitch_channel)
            /\ irc_pc' = "draining"
            /\ UNCHANGED irc_wake_at
       ELSE /\ AfterAttempt("connect")
            /\ UNCHANGED <<irc_conns, irc_closes, irc_written>>
    /\ UNCHANGED <<irc_last, irc_count, irc_stop, irc_stop_pc, irc_token_calls>>
    /\ ListenerOnly

\* "await writer.drain()" returns, and then the test of the read loop; or it
\* raises
Drained(ok) ==
    /\ irc_pc = "draining"
    /\ IF ok
       THEN /\ irc_attempt' = [irc_attempt EXCEPT
                                  !.drained = TRUE,
                                  !.ended = IF irc_stop THEN "stopped" ELSE ""]
            /\ irc_pc' = IF irc_stop THEN "closing" ELSE "reading"
       ELSE /\ irc_attempt' = [irc_attempt EXCEPT !.ended = "send"]
            /\ irc_pc' = "closing"
    /\ UNCHANGED <<irc_last, irc_count, irc_written, irc_stop, irc_stop_pc, irc_wake_at, irc_token_calls,
                   irc_conns, irc_closes>>
    /\ ListenerOnly

\* reader.readline() returns b"" (how = "eof") or raises (how = "read")
ReadEndsEofSkipsClose(how) ==
    /\ irc_pc = "reading"
    /\ IF how = "eof"
       THEN AfterAttempt(how)
       ELSE /\ irc_attempt' = [irc_attempt EXCEPT !.ended = how]
            /\ irc_pc' = "closing"
            /\ UNCHANGED irc_wake_at
    /\ UNCHANGED <<irc_last, irc_count, irc_written, irc_stop, irc_stop_pc, irc_token_calls,
                   irc_conns, irc_closes>>
    /\ ListenerOnly
ReadEnds(how) ==
    /\ irc_pc = "reading"
    /\ irc_attempt' = [irc_attempt EXCEPT !.ended = how]
    /\ irc_pc' = "closing"
    /\ UNCHANGED <<irc_last, irc_count, irc_written, irc_stop, irc_stop_pc, irc_wake_at, irc_token_calls,
                   irc_conns, irc_closes>>
    /\ ListenerOnly

\* the finally of _connect_and_listen: writer.close() and wait_closed() are
\* over, and run goes on
Closed ==
    /\ irc_pc = "closing"
    /\ AfterAttempt(irc_attempt.ended)
    /\ UNCHANGED <<irc_last, irc_count, irc_written, irc_stop, irc_stop_pc, irc_token_calls, irc_conns>>
    /\ irc_closes' = irc_closes + 1
    /\ ListenerOnly

\* asyncio.sleep(TWITCH_RECONNECT_DELAY_SECONDS) is over
ListenerWake ==
    /\ irc_pc = "sleeping"
    /\ clock >= irc_wake_at
    /\ irc_stop \/ irc_attempt.n < MaxConnects
    /\ RunLoopTest
    /\ UNCHANGED <<irc_last, irc_count, irc_written, irc_stop, irc_stop_pc, irc_wake_at, irc_conns, irc_closes>>
    /\ ListenerOnly

\* _send_pong: "PONG " and what follows the first space of the line
SendPongNoPayload(line) == irc_written' = Append(irc_written, <<"P", "O", "N", "G", " ">>)
SendPong(line) ==
    LET sp == IndexOf(line, " ")
        payload == IF sp = 0 THEN <<>> ELSE Drop(line, sp)
    IN irc_written' = Append(irc_written, <<"P", "O", "N", "G", " ">> \o payload)

\* reader.readline() returns the line w; _handle_irc_line, with the
\* enqueue_text it ends in or the drain of _send_pong, which may raise; and
\* then the test of the read loop
HandleIrcLine(w, drain_ok) ==
    /\ irc_pc = "reading"
    /\ irc_count < MaxLines
    /\ ProducersRunning
    /\ OthersMayRun
    /\ drain_ok \/ StartsWith(Render(w), <<"P", "I", "N", "G", " ">>)
    /\ irc_count' = irc_count + 1
    /\ irc_last' = [line |-> w, queue0 |-> xp_queue, next_id0 |-> xp_next_id,
                    written0 |-> irc_written]
    /\ irc_attempt' = [irc_attempt EXCEPT
                          !.reads = @ + 1,
                          !.ended = IF ~drain_ok THEN "send"
                                    ELSE IF irc_stop THEN "stopped" ELSE ""]
    /\ irc_pc' = IF ~drain_ok \/ irc_stop THEN "closing" ELSE "reading"
    /\ UNCHANGED <<irc_stop, irc_stop_pc, irc_wake_at, irc_token_calls, irc_conns, irc_closes>>
    /\ LET line == Render(w)
           parsed == ParsePrivmsg(StripIrcTags(line))
           content == NormalizeMessageText(parsed.message)
       IN IF StartsWith(line, <<"P", "I", "N", "G", " ">>)
          THEN /\ SendPong(line)
               /\ UNCHANGED <<xp_next_id, xp_queue, xp_accepted, xp_dropped>>
          ELSE /\ UNCHANGED irc_written
               /\ IF \/ ~parsed.matched
                     \/ ~ChannelMatches(parsed.channel)
                     \/ ~AuthorMatches(parsed.user)
                     \/ content = <<>>
                  THEN UNCHANGED <<xp_next_id, xp_queue, xp_accepted, xp_dropped>>
                  ELSE EnqueueText(BuildTweet(content))
    /\ UNCHANGED <<cache_vars, stats_vars, ann_vars, time_vars, tm_vars, mon_vars, xp_task, xp_last_post_time, xp_pc, xp_job,
                   xp_wake_at, xp_close_pc, xp_starts, xp_attempts, fs_files, fs_created>>

ListenerInit ==
    /\ irc_last = NoLine
    /\ irc_count = 0
    /\ irc_written = <<>>
    /\ irc_pc = "idle"
    /\ irc_stop = FALSE
    /\ irc_stop_pc = ""
    /\ irc_wake_at = 0
    /\ irc_token_calls = 0
    /\ irc_conns = 0
    /\ irc_closes = 0
    /\ irc_attempt = NoAttempt

-----------------------------------------------------------------------------
(* The specifications *)

\* time passes, on both clocks
AdvanceClock ==
    /\ clock + ClockStep <= MaxClock
    /\ OthersMayRun
    /\ clock' = clock + ClockStep
    /\ wall' = wall + ClockStep
    /\ UNCHANGED <<cache_vars, stats_vars, ann_vars, irc_vars, tm_vars, xp_vars, mon_vars>>

TokenInit ==
    /\ tm_access_token = NoValue
    /\ tm_expires_at = 0
    /\ tm_refresh_token = "r0"
    /\ tm_lock = <<>>
    /\ tm_pc = [c \in Callers |-> "idle"]
    /\ tm_call = [c \in Callers |-> NoCall]
    /\ tm_inflight = {}

\* the wall clock's reading when the program starts
WallStart == 86400

Init ==
    /\ clock = 0
    /\ wall = WallStart
    /\ TokenInit
    /\ PosterInit
    /\ MonitorInit
    /\ NoCaches
    /\ ListenerInit

TokenNext ==
    \/ \E c \in Callers : GetAccessToken(c)
    \/ \E c \in Callers : AcquireAfterWait(c)
    \/ \E c \in Callers : \E resp \in TokenResponses : RefreshResponse(c, resp)
    \/ AdvanceClock

SpecToken == Init /\ [][TokenNext]_vars

PosterNext ==
    \/ Start
    \/ \E text \in Texts : SubmitText(text)
    \/ \E text \in Texts : SubmitMedia(text)
    \/ \E w \in Workers : WorkerGet(w)
    \/ \E w \in Workers : WorkerWake(w)
    \/ \E w \in Workers : \E ok \in BOOLEAN : UploadDone(w, ok)
    \/ \E w \in Workers : \E ok \in BOOLEAN : PostDone(w, ok)
    \/ Close
    \/ CloseReturn
    \/ AdvanceClock

SpecPoster == Init /\ [][PosterNext]_vars

\* asyncio.sleep(remaining) in _wait_for_interval: the sleep of a worker runs
\* to its end however late the clock already is
SleepElapses ==
    /\ clock + ClockStep > MaxClock
    /\ OthersMayRun
    /\ \E w \in Workers : xp_pc[w] = "sleeping" /\ clock < xp_wake_at[w]
    /\ clock' = clock + ClockStep
    /\ wall' = wall + ClockStep
    /\ UNCHANGED <<cache_vars, stats_vars, ann_vars, irc_vars, tm_vars, xp_vars, mon_vars>>

\* close, resumed: the put it is suspended in goes through once there is room
ClosePut == xp_close_pc = "putting" /\ Close

PosterLiveNext ==
    \/ PosterNext
    \/ SleepElapses

\* The event loop runs every task that is ready, timers expire, and the calls
\* to the publishing client (run in threads) return or raise.
PosterFairness ==
    /\ WF_vars(\E w \in Workers : WorkerGet(w))
    /\ WF_vars(\E w \in Workers : WorkerWake(w))
    /\ WF_vars(\E w \in Workers : \E ok \in BOOLEAN : UploadDone(w, ok))
    /\ WF_vars(\E w \in Workers : \E ok \in BOOLEAN : PostDone(w, ok))
    /\ WF_vars(ClosePut)
    /\ WF_vars(CloseReturn)
    /\ WF_vars(AdvanceClock \/ SleepElapses)

SpecPosterLive == Init /\ [][PosterLiveNext]_vars /\ PosterFairness

\* the polls of a run in which only the first secondary channel is ever live
\* and no channel has a video scheduled
MonitorNext ==
    \/ \E result \in TwitchFetchResults(wall) : PollOnce(result)
    \/ \E infos \in {r \in YouTubeFetchResults(mon_now) : r["yt2"] = NoYouTubeInfo} :
            FetchYouTubeStreamInfos(infos)
    \/ AnnouncePoll(NoUpcomingInfos)
    \/ HandleStreamLive
    \/ HandleStreamOffline
    \/ \E render_ok \in BOOLEAN : PostSessionSummary(render_ok)
    \/ AdvanceClock

SpecMonitor == Init /\ [][MonitorNext]_vars

\* ---- the announcements of the monitor around the turn of two months

\* the wall clock at the start: shortly before 00:00 on 1 February 1970
AnnounceWallStart == 31 * DaySeconds - 2 * ClockStep

\* the days of an outage, and the days a run can last
OutageDays == 28
MaxAnnounceDays == 29

\* the program starts then, with caches that a run before it may have left
AnnounceInit ==
    /\ clock = 0
    /\ wall = AnnounceWallStart
    /\ TokenInit
    /\ PosterInit
    /\ MonitorInit
    /\ fs_upcoming_cache \in {NoFile, SaveStrings({"u1"})}
    /\ fs_monthly_cache \in {NoFile, SaveStrings({"1970-01"})}
    /\ LoadSets
    /\ ListenerInit

\* four weeks pass in which every poll fails at its first fetch
AdvanceDays ==
    /\ mon_pc = "wait"
    /\ wall + OutageDays * DaySeconds <= AnnounceWallStart + MaxAnnounceDays * DaySeconds
    /\ wall' = wall + OutageDays * DaySeconds
    /\ clock' = clock + OutageDays * DaySeconds
    /\ UNCHANGED <<cache_vars, stats_vars, ann_vars, irc_vars, tm_vars, xp_vars, mon_vars>>

\* the polls of a run in which the primary stream is off, no secondary
\* channel is live, and the channels have videos scheduled
AnnounceNext ==
    \/ \E result \in {r \in TwitchFetchResults(wall) : r.kind # "live"} : PollOnce(result)
    \/ FetchYouTubeStreamInfos(NoYouTubeInfos)
    \/ \E results \in {r \in UpcomingFetchResults(mon_now) :
                         r["yt2"].scheduled_start # mon_now} : AnnouncePoll(results)
    \/ HandleStreamOffline
    \/ AdvanceClock
    \/ AdvanceDays

SpecAnnounce == AnnounceInit /\ [][AnnounceNext]_vars

\* ---- the monitor started on cache files of any content

\* what the three files can hold when the program starts: nothing that can
\* be loaded, or a list with items that the loads keep and items that they drop
UpcomingCacheFiles ==
    {NoFile, JsonList(<<JsonStr("u1"), JsonStr(" "), JsonNum(7)>>)}
HistoryCacheFiles ==
    {NotJson,
     JsonList(<<JsonDict(JsonStr("s1"), JsonNum(1000), JsonNum(5000)),
                JsonDict(JsonStr("s2"), JsonNum(5000), JsonNum(5000)),
                JsonDict(JsonStr(" "), JsonNum(1000), JsonNum(5000)),
                JsonDict(JsonNum(3), JsonNum(1000), JsonNum(5000)),
                JsonDict(JsonStr("s2"), JsonStr("1000"), JsonNum(5000))>>)}
MonthlyCacheFiles ==
    {NoFile, JsonList(<<JsonStr("1969-12"), JsonStr("")>>)}

CacheInit ==
    /\ clock = 0
    /\ wall = AnnounceWallStart
    /\ TokenInit
    /\ PosterInit
    /\ MonitorFields
    /\ fs_upcoming_cache \in UpcomingCacheFiles
    /\ fs_history_cache \in HistoryCacheFiles
    /\ fs_monthly_cache \in MonthlyCacheFiles
    /\ (fs_upcoming_cache.type = "list") = (fs_history_cache.type = "list")
    /\ (fs_upcoming_cache.type = "list") = (fs_monthly_cache.type = "list")
    /\ LoadHistory
    /\ LoadSets
    /\ ListenerInit

\* the first channel has no video scheduled, or one that starts later
CacheUpcomingResults(now) ==
    {r \in UpcomingFetchResults(now) :
        /\ r["yt1"].video_id \in {NoValue, "u2"}
        /\ r["yt1"].scheduled_start # now
        /\ r["yt2"] = NoUpcomingInfo}

CacheNext ==
    \/ \E result \in TwitchFetchResults(wall) : PollOnce(result)
    \/ FetchYouTubeStreamInfos(NoYouTubeInfos)
    \/ \E results \in CacheUpcomingResults(mon_now) : AnnouncePoll(results)
    \/ HandleStreamLive
    \/ HandleStreamOffline
    \/ \E render_ok \in BOOLEAN : PostSessionSummary(render_ok)
    \/ AdvanceClock

SpecCache == CacheInit /\ [][CacheNext]_vars

RunFetchResults(now) ==
    {r \in TwitchFetchResults(now) :
        r.kind = "live" => r.stream_id = "s1" /\ r.started_at = now - ClockStep}

\* the program starts two clock steps after the retention period has passed
\* since 1 January 1970, early in February 1971
HistoryWallStart == HISTORY_RETENTION_SECONDS + 2 * ClockStep

\* the history file an earlier run has left: a record that ended a clock step
\* ago, one that will be exactly as old as the retention period one clock step
\* after the start, and one that is older than it
HistoryFile ==
    JsonList(<<JsonDict(JsonStr("s1"), JsonNum(HistoryWallStart - 2 * ClockStep),
                        JsonNum(HistoryWallStart - ClockStep)),
               JsonDict(JsonStr("s2"), JsonNum(ClockStep), JsonNum(3 * ClockStep)),
               JsonDict(JsonStr("s3"), JsonNum(1), JsonNum(ClockStep))>>)

HistoryInit ==
    /\ clock = 0
    /\ wall = HistoryWallStart
    /\ TokenInit
    /\ PosterInit
    /\ MonitorFields
    /\ fs_history_cache \in {NoFile, HistoryFile}
    /\ LoadHistory
    /\ NoCaches
    /\ ListenerInit

\* polls in which sessions begin, are superseded and end
HistoryNext ==
    \/ \E result \in {r \in TwitchFetchResults(wall) : r.kind # "error"} : PollOnce(result)
    \/ FetchYouTubeStreamInfos(NoYouTubeInfos)
    \/ AnnouncePoll(NoUpcomingInfos)
    \/ HandleStreamLive
    \/ HandleStreamOffline
    \/ \E render_ok \in BOOLEAN : PostSessionSummary(render_ok)
    \/ AdvanceClock

SpecHistory == HistoryInit /\ [][HistoryNext]_vars

\* polls in which each secondary fetch raises, gives None or gives a live
\* video, while the primary stream is live or not
GatherNext ==
    \/ \E result \in {r \in RunFetchResults(wall) : r.kind # "error"} : PollOnce(result)
    \/ \E fetched \in YouTubeGathered(mon_now) : FetchYouTubeStreamInfos(fetched)
    \/ AnnouncePoll(NoUpcomingInfos)
    \/ HandleStreamLive
    \/ HandleStreamOffline
    \/ PostSessionSummary(TRUE)
    \/ AdvanceClock

SpecGather == Init /\ [][GatherNext]_vars

\* the awaits of _poll_once take time
PollTakesTime == mon_pc \notin {"wait", "returned"} /\ AdvanceClock

\* the monitor task from start to the end of _run: polls that fail, find the
\* stream live or not live, and a stop at any moment; the stream found live is
\* always the same one
RunNext ==
    \/ \E result \in RunFetchResults(wall) : PollOnce(result)
    \/ FetchYouTubeStreamInfos(NoYouTubeInfos)
    \/ AnnouncePoll(NoUpcomingInfos)
    \/ HandleStreamLive
    \/ HandleStreamOffline
    \/ \E render_ok \in BOOLEAN : PostSessionSummary(render_ok)
    \/ MonitorStop
    \/ MonitorReturns
    \/ WaitPasses
    \/ PollTakesTime

\* _poll_once after the primary fetch: its requests return or raise
PollGoesOn ==
    \/ FetchYouTubeStreamInfos(NoYouTubeInfos)
    \/ AnnouncePoll(NoUpcomingInfos)
    \/ HandleStreamLive
    \/ HandleStreamOffline
    \/ \E render_ok \in BOOLEAN : PostSessionSummary(render_ok)

\* The event loop runs the monitor task when it is ready, the timeout of
\* wait_for expires, and the requests of a poll return or raise.
RunFairness ==
    /\ WF_vars(\E result \in RunFetchResults(wall) : PollOnce(result))
    /\ WF_vars(PollGoesOn)
    /\ WF_vars(WaitPasses)
    /\ WF_vars(MonitorReturns)

SpecRun == Init /\ [][RunNext]_vars /\ RunFairness

\* ---- _calculate_monthly_stats on the histories a cache file can hold

\* a day in ticks
DayTicks == DaySeconds * TicksPerSecond

\* the instants a record starts or ends at: in the first day, and half a
\* second and a second around the two midnights after it
StatsInstants ==
    {1000 * TicksPerSecond, 5000 * TicksPerSecond,
     DayTicks - 1, DayTicks, DayTicks + 1, DayTicks + TicksPerSecond,
     2 * DayTicks, 2 * DayTicks + 1}

MaxHistory == 2

StatsStreamIds == <<"s1", "s2", "s3">>

\* _load_stream_history_cache keeps the records with ended_at > started_at
StatsRecords(stream_id) ==
    {r \in [stream_id : {stream_id}, started_at : StatsInstants, ended_at : StatsInstants] :
        r.ended_at > r.started_at}

\* the histories of n records, each of a stream of its own
RECURSIVE StatsHistoriesOf(_)
StatsHistoriesOf(n) ==
    IF n = 0 THEN {<<>>}
    ELSE {Append(h, r) : h \in StatsHistoriesOf(n - 1), r \in StatsRecords(StatsStreamIds[n])}

StatsHistories == UNION {StatsHistoriesOf(n) : n \in 0..MaxHistory}

\* the windows: inside the first day, each of the first two days, and both
StatsWindows ==
    {<<2000 * TicksPerSecond, 4000 * TicksPerSecond>>,
     <<0, DayTicks>>, <<DayTicks, 2 * DayTicks>>, <<0, 2 * DayTicks>>}

StatsInit ==
    /\ clock = 0
    /\ wall = WallStart
    /\ TokenInit
    /\ PosterInit
    /\ MonitorFields
    /\ fs_history_cache \in {SaveStreamHistory(history) : history \in StatsHistories}
    /\ LoadHistory
    /\ NoCaches
    /\ ListenerInit

StatsNext == \E w \in StatsWindows : CalculateMonthlyStats(w[1], w[2])

SpecStats == StatsInit /\ [][StatsNext]_vars

\* ---- _calculate_monthly_stats on the histories the polls of a run build

\* the timestamps of the history, whole seconds in a run, as ticks
HistoryInTicks(history) ==
    [i \in 1..Len(history) |->
        [history[i] EXCEPT !.started_at = @ * TicksPerSecond,
                           !.ended_at = @ * TicksPerSecond]]

\* _maybe_post_monthly_stats calls _calculate_monthly_stats before the
\* live/offline branch of the poll, on the history as the polls before have
\* left it; here the window is any of a few, given in seconds
MonthlyStatsOfRun(start_timestamp, end_timestamp) ==
    /\ mon_pc = "upcoming"
    /\ LET result == CalculateMonthlyStatsFrom(HistoryInTicks(mon_stream_history),
                                               start_timestamp * TicksPerSecond,
                                               end_timestamp * TicksPerSecond, 1, {}, 0)
       IN stats_call' = [start_timestamp |-> start_timestamp * TicksPerSecond,
                         end_timestamp |-> end_timestamp * TicksPerSecond,
                         total_days |-> result.total_days,
                         total_seconds |-> result.total_seconds]
    /\ UNCHANGED <<cache_vars, ann_vars, irc_vars, time_vars, tm_vars, xp_vars, mon_vars>>

\* the windows: from the start of the run or one clock step later, to one or
\* two clock steps after the start
RunWindows ==
    {<<WallStart, WallStart + ClockStep>>,
     <<WallStart, WallStart + 2 * ClockStep>>,
     <<WallStart + ClockStep, WallStart + 2 * ClockStep>>}

\* polls in which sessions begin, are superseded and end, and the statistics
\* of the history they have built
TotalsNext ==
    \/ \E result \in {r \in TwitchFetchResults(wall) : r.kind # "error"} : PollOnce(result)
    \/ FetchYouTubeStreamInfos(NoYouTubeInfos)
    \/ \E w \in RunWindows : MonthlyStatsOfRun(w[1], w[2])
    \/ AnnouncePoll(NoUpcomingInfos)
    \/ HandleStreamLive
    \/ HandleStreamOffline
    \/ PostSessionSummary(TRUE)
    \/ AdvanceClock

SpecTotals == Init /\ [][TotalsNext]_vars

\* ---- the listener on one connection that stays up, reading any line
ListenerNext ==
    \/ ListenerRun
    \/ TokenReturns(TRUE, <<"a", "1">>)
    \/ Connected(TRUE)
    \/ Drained(TRUE)
    \/ \E w \in IrcLines : HandleIrcLine(w, TRUE)

SpecListener == Init /\ [][ListenerNext]_vars

\* ---- the listener over connections that fail and a stop at any moment

\* the lines read there: a probe, the bare PING and a chat line of the
\* target participant in the configured channel, all without tags
ConnectLines ==
    {w \in IrcLines :
        /\ w.tags = <<>>
        /\ \/ /\ w.kind = "other"
              /\ w.text \in {<<"P", "I", "N", "G", " ", "a", " ", "b">>, <<"P", "I", "N", "G">>}
           \/ /\ w.kind = "chat"
              /\ w.user.chars = TARGET_TWITCH_USER_LOWER
              /\ w.channel.chars = twitch_channel
              /\ w.message.raw = <<"h", "i">>}

\* time passes while the listener sleeps before it reconnects
SleepPasses == irc_pc = "sleeping" /\ clock < irc_wake_at /\ AdvanceClock

ConnectNext ==
    \/ ListenerRun
    \/ ListenerStop
    \/ \E token \in IrcTokens : TokenReturns(TRUE, token)
    \/ TokenReturns(FALSE, <<>>)
    \/ \E ok \in BOOLEAN : Connected(ok)
    \/ \E ok \in BOOLEAN : Drained(ok)
    \/ \E w \in ConnectLines, drain_ok \in BOOLEAN : HandleIrcLine(w, drain_ok)
    \/ \E how \in {"eof", "read"} : ReadEnds(how)
    \/ Closed
    \/ ListenerWake
    \/ SleepPasses

SpecConnect == Init /\ [][ConnectNext]_vars

\* a read that is in flight returns: with a line, with b"", or by raising
ReadReturns ==
    \/ \E w \in ConnectLines, drain_ok \in BOOLEAN : HandleIrcLine(w, drain_ok)
    \/ \E how \in {"eof", "read"} : ReadEnds(how)

\* the event loop runs the listener when its sleep is over and when the
\* connection has been closed, time passes, and a read that is in flight
\* returns in the end
ConnectFairness ==
    /\ WF_vars(ReadReturns)
    /\ WF_vars(Closed)
    /\ WF_vars(ListenerWake)
    /\ WF_vars(SleepPasses)

SpecConnectLive == Init /\ [][ConnectNext]_vars /\ ConnectFairness

-----------------------------------------------------------------------------
(* Claims about TwitchTokenManager, checked under SpecToken *)

Returned(c) == tm_call[c].outcome = "returned"

\* C4 as stated: a caller that called get_access_token while a refresh request
\* was in flight never sends a refresh request of its own.
C4_Original ==
    \A c \in Callers : tm_call[c].arrived_inflight => ~tm_call[c].requested

\* C4 as amended: at most one refresh request is in flight at any time, a
\* caller waiting for the lock has sent none, and a caller that arrived during
\* an in-flight refresh sends a request of its own only if, when it got the
\* lock, there was no cached token or the cached token had 60 seconds or less
\* left (the refresh it waited for failed or left such a token).
C4_OneRefreshInFlight ==
    /\ Cardinality(tm_inflight) <= 1
    /\ \A c \in Callers : tm_pc[c] = "waiting" => c \notin tm_inflight
    /\ \A c \in Callers :
         (tm_call[c].arrived_inflight /\ tm_call[c].requested)
            => (~tm_call[c].had_token \/ tm_call[c].check_left <= 60)

\* a caller arrived during an in-flight refresh, waited, and got the token that
\* refresh stored without a request of its own
C4_Witness ==
    \E c \in Callers :
        /\ tm_call[c].arrived_inflight
        /\ Returned(c)
        /\ ~tm_call[c].requested

\* C5 as stated: every token returned by get_access_token has more than 60
\* seconds left before its recorded expiry when it is returned.
C5_Original ==
    \A c \in Callers : Returned(c) => tm_call[c].ret_left > 60

\* C5 as amended: a token returned from the cache has more than 60 seconds
\* left; a token returned after a refresh has exactly the lifetime just
\* recorded left: the endpoint's expires_in when that is a positive integer,
\* 3600 seconds otherwise.
C5_ReturnedTokenLifetime ==
    \A c \in Callers :
        Returned(c) =>
            IF tm_call[c].requested
            THEN tm_call[c].ret_left =
                    (IF tm_call[c].raw_expires_in.is_int /\ tm_call[c].raw_expires_in.value > 0
                     THEN tm_call[c].raw_expires_in.value ELSE 3600)
            ELSE tm_call[c].ret_left > 60

\* one caller got the cached token, another a token refreshed with a
\* non-positive expires_in
C5_Witness ==
    /\ \E c \in Callers : Returned(c) /\ ~tm_call[c].requested
    /\ \E c \in Callers :
          /\ Returned(c) /\ tm_call[c].requested
          /\ tm_call[c].raw_expires_in.is_int
          /\ tm_call[c].raw_expires_in.value <= 0

\* C6: a call that has passed the cache check sent no refresh request exactly
\* when a token was cached with more than 60 seconds left before its recorded
\* expiry; in every other case it sent the request before returning anything.
C6_CachedOnlyWithMargin ==
    \A c \in Callers :
        (tm_call[c].outcome # "none" /\ tm_pc[c] # "waiting") =>
            (~tm_call[c].requested
                <=> (tm_call[c].had_token /\ tm_call[c].check_left > 60))

\* a cached token with exactly 60 seconds left was refreshed, not returned
C6_Witness ==
    \E c \in Callers :
        /\ tm_call[c].had_token
        /\ tm_call[c].check_left = 60
        /\ tm_call[c].requested
        /\ Returned(c)

\* the caller's refresh request has been answered in this step
RefreshEnds(c) == tm_pc[c] = "refreshing" /\ tm_pc'[c] # "refreshing"

\* C32: a refresh request ends the call in one step: the caller holds the
\* lock and releases it, has no request in flight afterwards, and the call
\* either returns the access token just stored or raises; when it raises,
\* the cached access token, the expiry and the refresh token are as before.
\* A request is sent only by a call that has just got the lock.
C32_FailedRefreshRaises ==
    /\ [][\A c \in Callers :
              RefreshEnds(c) =>
                  /\ Head(tm_lock) = c
                  /\ tm_lock' = Tail(tm_lock)
                  /\ tm_pc'[c] = "idle"
                  /\ c \notin tm_inflight'
                  /\ tm_call'[c].outcome \in {"raised", "returned"}
                  /\ tm_call'[c].outcome = "raised" =>
                        /\ tm_call'[c].token = NoValue
                        /\ UNCHANGED <<tm_access_token, tm_expires_at, tm_refresh_token>>
                  /\ tm_call'[c].outcome = "returned" =>
                        /\ tm_call'[c].token \in AccessTokens
                        /\ tm_access_token' = tm_call'[c].token]_vars
    /\ [][\A c \in Callers :
              (c \in tm_inflight' /\ c \notin tm_inflight) =>
                  /\ tm_pc[c] \in {"idle", "waiting"}
                  /\ tm_pc'[c] = "refreshing"
                  /\ Head(tm_lock') = c]_vars
    /\ [](\A c \in Callers : tm_call[c].outcome = "raised" =>
              /\ tm_call[c].requested
              /\ tm_pc[c] = "idle")

\* a refresh has failed while an expired token and a rotated refresh token
\* were cached, both are still there, and the caller that waited behind it
\* holds the lock and has sent its own request
C32_Witness ==
    \E c, d \in Callers :
        /\ tm_call[c].outcome = "raised"
        /\ tm_call[c].had_token
        /\ tm_access_token \in AccessTokens
        /\ tm_refresh_token = "r1"
        /\ d # c
        /\ tm_pc[d] = "refreshing"
        /\ tm_call[d].arrived_inflight
        /\ tm_lock = <<d>>

-----------------------------------------------------------------------------
(* Claims about XPoster, checked under SpecPoster *)

AttemptIndexes == 1..Len(xp_attempts)
Finished(i) == xp_attempts[i].end # -1

C3_Original ==
    \A i \in AttemptIndexes :
        (i > 1 /\ Finished(i - 1))
            => xp_attempts[i].start - xp_attempts[i - 1].start >= interval_seconds

\* C7: a submitted job was refused only if the queue held queue_size entries
\* when it was submitted; every other submitted job is on the queue, with the
\* worker, or has had its publish attempt.
C7_DroppedOnlyWhenFull ==
    /\ \A d \in xp_dropped : d.qlen = queue_size
    /\ \A id \in 1..(xp_next_id - 1) :
          \/ \E d \in xp_dropped : d.id = id
          \/ \E i \in 1..Len(xp_queue) : xp_queue[i].id = id
          \/ \E w \in Workers : xp_job[w].id = id
          \/ \E i \in AttemptIndexes : xp_attempts[i].id = id

\* a job was refused, and another one has reached the worker
C7_Witness ==
    /\ xp_dropped # {}
    /\ xp_attempts # <<>>

\* C8: the publish attempts are made in the order in which the jobs were
\* accepted: the attempted jobs are a prefix of the accepted jobs.
C8_AttemptsInAcceptedOrder ==
    /\ Len(xp_attempts) <= Len(xp_accepted)
    /\ \A i \in AttemptIndexes : xp_attempts[i].id = xp_accepted[i]

\* three accepted jobs have been attempted
C8_Witness ==
    /\ Len(xp_attempts) >= 3
    /\ Len(xp_accepted) >= 3

\* C9: there is at most one worker task, it holds at most one job, and at most
\* one publish attempt is unfinished.
C9_OnePublishAtATime ==
    /\ Cardinality({w \in Workers : xp_pc[w] # "none"}) <= 1
    /\ Cardinality({w \in Workers : xp_job[w] # NoJob}) <= 1
    /\ Cardinality({i \in AttemptIndexes : ~Finished(i)}) <= 1

\* start was called twice, a publish is in progress and a job waits behind it
C9_Witness ==
    /\ xp_starts = 2
    /\ \E w \in Workers : xp_pc[w] \in {"uploading", "posting"}
    /\ xp_queue # <<>>

\* C10: the queue never holds more than queue_size entries, and a job
\* submitted while it holds queue_size entries is dropped in that same step,
\* which leaves the queue and the accepted jobs as they were.
C10_FullQueueDrops ==
    /\ [](Len(xp_queue) <= queue_size)
    /\ [][(xp_next_id' # xp_next_id /\ Len(xp_queue) = queue_size)
            => /\ xp_queue' = xp_queue
               /\ xp_accepted' = xp_accepted
               /\ xp_dropped' = xp_dropped \cup {[id |-> xp_next_id, qlen |-> queue_size]}]_vars

\* a job was dropped and the queue is still full
C10_Witness ==
    /\ Len(xp_queue) = queue_size
    /\ \E d \in xp_dropped : d.id = xp_next_id - 1

\* close has been called on a started queue and has not returned yet
CloseCalled == xp_close_pc \in {"putting", "joining"}

\* close has returned on a started queue
CloseReturned == xp_close_pc = "closed" /\ xp_task # NoTask

\* every accepted job has had its publish attempt, and the attempt is over
AllAcceptedAttempted ==
    /\ Len(xp_attempts) = Len(xp_accepted)
    /\ \A i \in AttemptIndexes : xp_attempts[i].id = xp_accepted[i] /\ Finished(i)

\* C11: once close has been called on a started queue, the worker exits and
\* close returns; when close has returned, the worker has ended, the queue is
\* empty and every job accepted before has had its publish attempt.
C11_CloseDrains ==
    /\ [](CloseReturned => /\ xp_pc[xp_task] = "done"
                           /\ xp_queue = <<>>
                           /\ AllAcceptedAttempted)
    /\ (CloseCalled ~> CloseReturned)

\* close has returned after the worker made the attempts of two accepted
\* jobs, the later of which it had to sleep for past the end of the run
C11_Witness ==
    /\ CloseReturned
    /\ Len(xp_accepted) >= 2
    /\ AllAcceptedAttempted
    /\ \E i \in AttemptIndexes : xp_attempts[i].start > MaxClock

\* the ids of the jobs waiting in the queue or held by a worker
QueuedIds == {xp_queue[i].id : i \in 1..Len(xp_queue)}
HeldIds == {xp_job[w].id : w \in Workers} \ {NoJob.id}

\* C12: a job has at most one publish attempt; once its attempt is over,
\* failed or not, the job is neither back on the queue nor held by the
\* worker, and a failed attempt does not end the worker, which ends only on
\* the sentinel that close puts.
C12_AtMostOneAttempt ==
    /\ \A i, j \in AttemptIndexes : xp_attempts[i].id = xp_attempts[j].id => i = j
    /\ \A i \in AttemptIndexes :
          /\ xp_attempts[i].id \notin QueuedIds
          /\ Finished(i) => xp_attempts[i].id \notin HeldIds
    /\ \A w \in Workers : xp_pc[w] = "done" => xp_close_pc \in {"joining", "closed"}

\* an attempt failed and the worker went on to attempt the next job
C12_Witness ==
    \E i, j \in AttemptIndexes :
        /\ i < j
        /\ Finished(i) /\ ~xp_attempts[i].ok
        /\ Finished(j) /\ xp_attempts[j].ok
        /\ xp_attempts[i].id # xp_attempts[j].id

\* C13: for every job with a cleanup path that the worker has taken, the
\* cleanup file is still there while the publish attempt runs and is gone
\* once the attempt is over, whether it succeeded or failed.
C13_CleanupFileDeleted ==
    \A i \in AttemptIndexes :
        xp_attempts[i].cleanup_path # NoPath =>
            IF Finished(i)
            THEN xp_attempts[i].cleanup_path \notin fs_files
            ELSE xp_attempts[i].cleanup_path \in fs_files

\* an image job failed, another succeeded, and both chart files are gone
C13_Witness ==
    \E i, j \in AttemptIndexes :
        /\ Finished(i) /\ ~xp_attempts[i].ok
        /\ Finished(j) /\ xp_attempts[j].ok
        /\ xp_attempts[i].cleanup_path # NoPath
        /\ xp_attempts[j].cleanup_path # NoPath
        /\ xp_attempts[i].cleanup_path # xp_attempts[j].cleanup_path
        /\ {xp_attempts[i].cleanup_path, xp_attempts[j].cleanup_path} \cap fs_files = {}

-----------------------------------------------------------------------------
(* Claims about the order of the client calls in _post_to_x, checked under
   SpecPoster *)

\* the attempt i is the one a worker is making now, and it is in the call pc
AttemptAt(i, pc) ==
    \E w \in Workers : xp_job[w].id = xp_attempts[i].id /\ xp_pc[w] = pc

\* C25: in the attempt of a job with an image, media_upload is the first
\* client call and create_tweet is called only after it has returned; when
\* media_upload raised, create_tweet is not called in this attempt, the
\* attempt has ended as failed, and the job gets no other attempt.
C25_UploadBeforePost ==
    \A i \in AttemptIndexes :
        LET a == xp_attempts[i]
        IN a.media_path # NoPath =>
            /\ a.calls \in {<<"media_upload">>, <<"media_upload", "create_tweet">>}
            /\ AttemptAt(i, "uploading") => a.calls = <<"media_upload">>
            /\ AttemptAt(i, "posting") => a.calls = <<"media_upload", "create_tweet">>
            /\ a.ok => a.calls = <<"media_upload", "create_tweet">>
            /\ a.upload_failed =>
                    /\ a.calls = <<"media_upload">>
                    /\ Finished(i) /\ ~a.ok
                    /\ a.id \notin QueuedIds \cup HeldIds
                    /\ \A j \in AttemptIndexes : xp_attempts[j].id = a.id => j = i

\* the upload of one image job raised and no post was made for it; the image
\* of another was uploaded and then posted
C25_Witness ==
    \E i, j \in AttemptIndexes :
        /\ xp_attempts[i].media_path # NoPath
        /\ xp_attempts[i].upload_failed
        /\ xp_attempts[i].calls = <<"media_upload">>
        /\ xp_attempts[j].media_path # NoPath
        /\ xp_attempts[j].ok
        /\ xp_attempts[j].calls = <<"media_upload", "create_tweet">>

-----------------------------------------------------------------------------
(* Claims about TwitchIRCListener, checked under SpecListener *)

\* the line is a chat line of the target participant in the configured
\* channel, in whatever casing, as it was built
FilterMatch(w) == w.kind = "chat" /\ w.channel.configured /\ w.user.target

\* a line has been handled, and nothing else has run since
LineHandled == irc_count > 0

\* C14: a line that is no chat line, or whose channel is not the configured
\* one, or whose author is not the target participant, leaves the publish
\* queue as it was and submits no job.
C14_FilteredLinesEnqueueNothing ==
    (LineHandled /\ ~FilterMatch(irc_last.line)) =>
        /\ xp_queue = irc_last.queue0
        /\ xp_next_id = irc_last.next_id0
        /\ Len(xp_accepted) + Cardinality(xp_dropped) = xp_next_id - 1

\* a tagged line of the target participant with a body, but in another
\* channel, met a queue that held a job and left it alone
C14_Witness ==
    /\ LineHandled
    /\ irc_last.line.kind = "chat"
    /\ irc_last.line.tags # <<>>
    /\ irc_last.line.user.target
    /\ ~irc_last.line.channel.configured
    /\ irc_last.line.message.norm # <<>>
    /\ irc_last.queue0 # <<>>
    /\ xp_queue = irc_last.queue0

\* the text the header and the normalized body make
FormattedBody(w) == POST_HEADER \o <<"\n", "\n">> \o w.message.norm

\* C15 as stated: a matching line with a non-empty normalized body puts
\* exactly one job on the queue, whose text is the header and the body.
C15_Original ==
    (LineHandled /\ FilterMatch(irc_last.line) /\ irc_last.line.message.norm # <<>>) =>
        /\ Len(xp_queue) = Len(irc_last.queue0) + 1
        /\ xp_queue[Len(xp_queue)].text = FormattedBody(irc_last.line)

\* the formatted text as a post can hold it: cut to 277 characters and
\* "..." when it is longer than 280
PostableText(w) ==
    LET full == FormattedBody(w)
    IN IF Len(full) <= 280 THEN full ELSE SubSeq(full, 1, 277) \o <<".", ".", ".">>

\* C15 as amended: a matching line with a non-empty normalized body submits
\* exactly one job; the job is put at the end of the queue unless the queue
\* is full, when it is dropped and the queue stays as it was; its text is
\* the header and the normalized body, cut to 280 characters (277 and
\* "...") when longer, and it has no image.
C15_MatchingLineSubmitsOneJob ==
    (LineHandled /\ FilterMatch(irc_last.line) /\ irc_last.line.message.norm # <<>>) =>
        /\ xp_next_id = irc_last.next_id0 + 1
        /\ IF Len(irc_last.queue0) >= queue_size
           THEN /\ xp_queue = irc_last.queue0
                /\ \E d \in xp_dropped : d.id = irc_last.next_id0
           ELSE /\ Len(xp_queue) = Len(irc_last.queue0) + 1
                /\ SubSeq(xp_queue, 1, Len(irc_last.queue0)) = irc_last.queue0
                /\ xp_queue[Len(xp_queue)] =
                      [id |-> irc_last.next_id0, text |-> PostableText(irc_last.line),
                       media_path |-> NoPath, cleanup_path |-> NoPath]

\* a tagged line in other casing with a body too long for a post was
\* accepted behind another job, cut to 280 characters
C15_Witness ==
    /\ LineHandled
    /\ FilterMatch(irc_last.line)
    /\ irc_last.line.tags # <<>>
    /\ irc_last.line.user.chars # TARGET_TWITCH_USER_LOWER
    /\ irc_last.line.channel.chars # twitch_channel
    /\ Len(FormattedBody(irc_last.line)) > 280
    /\ Len(irc_last.queue0) = 1
    /\ Len(xp_queue) = 2
    /\ Len(xp_queue[2].text) = 280

-----------------------------------------------------------------------------
(* Claims about TwitchStreamMonitor, checked under SpecMonitor *)

\* the records of the history that carry the stream id of the detached session
RecordsOfPrevious(history) ==
    {i \in 1..Len(history) : history[i].stream_id = mon_previous.stream_id}

\* the summary job and the history record of the detached session are there
PreviousSummarised ==
    /\ xp_next_id = mon_iter.next_id0 + 1
    /\ \E i \in RecordsOfPrevious(mon_stream_history) :
          mon_stream_history[i].ended_at = mon_now

RingAfter(before, after, maxlen) ==
    /\ Len(after) >= 1
    /\ IF Len(before) = maxlen
       THEN SubSeq(after, 1, Len(after) - 1) = Tail(before)
       ELSE SubSeq(after, 1, Len(after) - 1) = before

\* C20: the primary buffer of the active session never holds more than
\* twitch_stream_sample_max_points samples and no secondary buffer more than
\* youtube_sample_max_points; a poll that continues the session leaves in
\* the primary buffer the samples it had, without the oldest if it was
\* full, followed by the new sample taken at the poll time, and likewise in
\* the buffer of every secondary channel that stays on its video.
C20_RingBuffersBounded ==
    /\ mon_session # NoSession =>
          /\ Len(mon_session.samples) <= twitch_stream_sample_max_points
          /\ \A ch \in YouTubeChannels :
                mon_session.youtube_channels[ch] # NoChannelSession =>
                    Len(mon_session.youtube_channels[ch].samples) <= youtube_sample_max_points
    /\ mon_iter.kind = "continued" =>
          /\ RingAfter(mon_iter.session0.samples, mon_session.samples,
                       twitch_stream_sample_max_points)
          /\ mon_session.samples[Len(mon_session.samples)].timestamp = mon_now
          /\ \A ch \in YouTubeChannels :
                LET before == mon_iter.session0.youtube_channels[ch]
                    after == mon_session.youtube_channels[ch]
                IN (/\ before # NoChannelSession
                    /\ after # before
                    /\ after.video_id = before.video_id) =>
                       /\ RingAfter(before.samples, after.samples, youtube_sample_max_points)
                       /\ after.samples[Len(after.samples)].timestamp = mon_now

\* a poll continued a session whose primary buffer and one secondary buffer
\* were full, and both lost their oldest sample
C20_Witness ==
    /\ mon_iter.kind = "continued"
    /\ Len(mon_iter.session0.samples) = twitch_stream_sample_max_points
    /\ Len(mon_session.samples) = twitch_stream_sample_max_points
    /\ mon_session.samples[1] # mon_iter.session0.samples[1]
    /\ \E ch \in YouTubeChannels :
          /\ mon_iter.session0.youtube_channels[ch] # NoChannelSession
          /\ Len(mon_iter.session0.youtube_channels[ch].samples) = youtube_sample_max_points
          /\ mon_session.youtube_channels[ch].video_id
                = mon_iter.session0.youtube_channels[ch].video_id
          /\ mon_session.youtube_channels[ch].samples[1]
                # mon_iter.session0.youtube_channels[ch].samples[1]


-----------------------------------------------------------------------------
(* Claims about the announcements, checked under SpecAnnounce *)

\* how often x occurs in the sequence log
Occurrences(log, x) == Cardinality({i \in 1..Len(log) : log[i] = x})

\* C16: no video id has more than one announcement job, also when several
\* channels report it in one iteration; the upcoming-posted set only grows;
\* and no step submits an announcement job for a video id that is in the
\* set, whether the cache or an earlier iteration put it there.
C16_AnnouncedOncePerVideo ==
    /\ [](\A v \in UpcomingVideoIds : Occurrences(ann_upcoming_log, v) <= 1)
    /\ [][/\ mon_upcoming_posted_ids \subseteq mon_upcoming_posted_ids'
          /\ \A v \in mon_upcoming_posted_ids :
                Occurrences(ann_upcoming_log', v) = Occurrences(ann_upcoming_log, v)]_vars

\* both channels have reported the same video, scheduled later than the
\* poll, in a second or later iteration, and it has one announcement job
C16_Witness ==
    /\ mon_pc = "polled"
    /\ mon_polls >= 2
    /\ \A ch \in YouTubeChannels :
          /\ ann_results[ch].video_id = "u1"
          /\ ann_results[ch].scheduled_start > mon_now
    /\ ann_upcoming_log = <<"u1">>

\* the ids of the upcoming results of the poll that are neither in the
\* upcoming-posted set nor scheduled at or before the poll time
Announceable(results, now, posted) ==
    {results[ch].video_id :
        ch \in {c \in YouTubeChannels :
                    /\ results[c] # NoUpcomingInfo
                    /\ results[c].scheduled_start > now
                    /\ results[c].video_id \notin posted}}

\* C29: in a poll, the ids that get an announcement job are exactly the ids
\* of the results scheduled later than the poll time and not in the
\* upcoming-posted set, each once, and the same ids are added to the set; an
\* id whose results are all scheduled at or before the poll time gets neither.
\* The cache file is saved once in the poll if there is such an id and is
\* not written otherwise, in that poll or between polls.
C29_UpcomingAnnouncedIfFuture ==
    /\ [][(mon_pc = "upcoming" /\ mon_pc' = "polled") =>
              LET new == Announceable(ann_results', mon_now, mon_upcoming_posted_ids)
                  added == SubSeq(ann_upcoming_log', Len(ann_upcoming_log) + 1,
                                  Len(ann_upcoming_log'))
              IN /\ mon_upcoming_posted_ids' = mon_upcoming_posted_ids \cup new
                 /\ {added[i] : i \in 1..Len(added)} = new
                 /\ Len(added) = Cardinality(new)
                 /\ SubSeq(ann_upcoming_log', 1, Len(ann_upcoming_log)) = ann_upcoming_log
                 /\ mon_iter'.saves = IF new = {} THEN 0 ELSE 1
                 /\ fs_upcoming_cache' =
                        IF new = {} THEN fs_upcoming_cache
                        ELSE SaveStrings(mon_upcoming_posted_ids')]_vars
    /\ [][~(mon_pc = "upcoming" /\ mon_pc' = "polled") =>
              UNCHANGED <<mon_upcoming_posted_ids, ann_upcoming_log, fs_upcoming_cache>>]_vars
    /\ [](mon_iter.saves <= 1)

\* in one poll the first channel's video is scheduled at the poll time and
\* got no job and no entry, and the second channel's, scheduled later, got
\* both; the cache was saved once
C29_Witness ==
    /\ mon_pc = "polled"
    /\ ann_results["yt1"].video_id = "u2"
    /\ ann_results["yt1"].scheduled_start = mon_now
    /\ ann_results["yt2"].video_id = "u1"
    /\ ann_results["yt2"].scheduled_start > mon_now
    /\ ann_upcoming_log = <<"u1">>
    /\ mon_upcoming_posted_ids = {"u1"}
    /\ mon_iter.saves = 1
    /\ fs_upcoming_cache = SaveStrings({"u1"})

\* the first days of months in the run, by day number since 1 January 1970,
\* each with the key of the month before it
FirstDayKeys == [d \in {31, 59} |-> IF d = 31 THEN "1970-01" ELSE "1970-02"]

\* C17: no month key has more than one statistics job; a step that submits
\* one belongs to an iteration whose local date is the first day of a month,
\* the job is for the month before it, that key was not in the
\* monthly-posted set and is in it afterwards; the set only grows.
C17_MonthlyStatsOncePerMonth ==
    /\ [](\A i, j \in 1..Len(ann_monthly_log) :
            ann_monthly_log[i] = ann_monthly_log[j] => i = j)
    /\ [][/\ mon_monthly_stats_posted \subseteq mon_monthly_stats_posted'
          /\ ann_monthly_log' # ann_monthly_log =>
                LET day == mon_now \div 86400
                IN /\ day \in DOMAIN FirstDayKeys
                   /\ ann_monthly_log' = Append(ann_monthly_log, FirstDayKeys[day])
                   /\ FirstDayKeys[day] \notin mon_monthly_stats_posted
                   /\ FirstDayKeys[day] \in mon_monthly_stats_posted'
                   /\ xp_next_id' > xp_next_id]_vars

\* statistics jobs were submitted for January in a poll of 1 February,
\* none in a later poll of that day, and for February on 1 March
C17_Witness ==
    /\ ann_monthly_log = <<"1970-01", "1970-02">>
    /\ mon_monthly_stats_posted = {"1970-01", "1970-02"}
    /\ mon_polls >= 3
    /\ xp_next_id = 3

\* the jobs the announcements and the statistics post of the current poll
\* submitted, and the jobs the queue has taken so far
PollJobs == mon_iter.next_id0 .. (mon_iter.next_id0 + mon_iter.announced - 1)
AcceptedIds == {xp_accepted[i] : i \in 1..Len(xp_accepted)}

\* the announcements and the statistics post of the poll have been made
Announced == mon_pc = "polled"

\* C34 as stated: every job submitted for a video id added to the
\* upcoming-posted set or a month key added to the monthly-posted set has
\* been accepted into the publish queue.
C34_Original ==
    Announced => PollJobs \subseteq AcceptedIds

\* C34 as amended: for every video id added to the upcoming-posted set and
\* every month key added to the monthly-posted set one job has been
\* submitted to the publish queue in the same poll; the queue has accepted
\* it unless it was full at that moment, and then the job is dropped while
\* the id or key stays recorded.
C34_RecordedMeansSubmitted ==
    /\ [][(mon_pc = "upcoming" /\ mon_pc' = "polled") =>
              /\ Cardinality(mon_upcoming_posted_ids' \ mon_upcoming_posted_ids)
                    + Cardinality(mon_monthly_stats_posted' \ mon_monthly_stats_posted)
                 = xp_next_id' - xp_next_id
              /\ mon_iter'.announced = xp_next_id' - xp_next_id
              /\ mon_iter.next_id0 = xp_next_id]_vars
    /\ [][~(mon_pc = "upcoming" /\ mon_pc' = "polled") =>
              UNCHANGED <<mon_upcoming_posted_ids, mon_monthly_stats_posted>>]_vars
    /\ [](Announced =>
            \A id \in PollJobs :
                \/ id \in AcceptedIds
                \/ \E d \in xp_dropped : d.id = id /\ d.qlen >= queue_size)

\* a poll without upcoming results has added the month key to the
\* monthly-posted set while the queue was full of announcements: the key is
\* recorded and its job was dropped
C34_Witness ==
    /\ Announced
    /\ ann_results = NoUpcomingInfos
    /\ mon_iter.announced = 1
    /\ ann_monthly_log = <<"1970-01">>
    /\ "1970-01" \in mon_monthly_stats_posted
    /\ Len(xp_queue) = queue_size
    /\ \E d \in xp_dropped : d.id = mon_iter.next_id0

-----------------------------------------------------------------------------
(* Claims about _calculate_monthly_stats, checked under SpecStats *)

StatsCalled == stats_call # NoStatsCall

\* the overlap of a record and the window of the latest call
OverlapStart(item) == Larger(item.started_at, stats_call.start_timestamp)
OverlapEnd(item) == Smaller(item.ended_at, stats_call.end_timestamp)
Overlaps(item) == OverlapEnd(item) > OverlapStart(item)

\* the sum over the first n records of max(0, min(E, W_end) - max(S, W_start))
RECURSIVE OverlapSum(_)
OverlapSum(n) ==
    IF n = 0 THEN 0
    ELSE OverlapSum(n - 1)
         + Larger(0, OverlapEnd(mon_stream_history[n]) - OverlapStart(mon_stream_history[n]))

\* the days within the window
WindowDates == StatsDate(stats_call.start_timestamp) .. StatsDate(stats_call.end_timestamp)

\* the days from the date of the overlap's start through the date one second
\* before the overlap's end, over the records with a non-empty overlap
DatesToSecondBeforeEnd ==
    {d \in WindowDates :
        \E i \in DOMAIN mon_stream_history :
            /\ Overlaps(mon_stream_history[i])
            /\ StatsDate(OverlapStart(mon_stream_history[i])) <= d
            /\ d <= StatsDate(OverlapEnd(mon_stream_history[i]) - TicksPerSecond)}

\* the same days, and the date of the overlap's start itself
DatesOfOverlaps ==
    DatesToSecondBeforeEnd
    \cup {StatsDate(OverlapStart(mon_stream_history[i])) :
             i \in {j \in DOMAIN mon_stream_history : Overlaps(mon_stream_history[j])}}

\* the example: records [(1000, 5000)] and window [2000, 4000)
ExampleCall ==
    /\ StatsCalled
    /\ Len(mon_stream_history) = 1
    /\ mon_stream_history[1].started_at = 1000 * TicksPerSecond
    /\ mon_stream_history[1].ended_at = 5000 * TicksPerSecond
    /\ stats_call.start_timestamp = 2000 * TicksPerSecond
    /\ stats_call.end_timestamp = 4000 * TicksPerSecond

\* C18 as stated: _calculate_monthly_stats returns as total the sum over the
\* records of max(0, min(E, W_end) - max(S, W_start)), and as active days the
\* number of distinct days from the date of max(S, W_start) through the date of
\* min(E, W_end) - 1 second over the records with a non-empty overlap.
C18_Original ==
    StatsCalled =>
        /\ stats_call.total_seconds = OverlapSum(Len(mon_stream_history))
        /\ stats_call.total_days = Cardinality(DatesToSecondBeforeEnd)

\* C18 as amended: the total is that sum, 2000 seconds in the example; the
\* active days are the distinct days from the date of the overlap's start
\* through the date of min(E, W_end) - 1 second, and the date of the overlap's
\* start is always one of them, also when the overlap is shorter than a second
\* and starts at midnight.
C18_MonthlyStats ==
    StatsCalled =>
        /\ stats_call.total_seconds = OverlapSum(Len(mon_stream_history))
        /\ stats_call.total_days = Cardinality(DatesOfOverlaps)
        /\ ExampleCall => stats_call.total_seconds = 2000 * TicksPerSecond

\* the window starts at a midnight, and a stream that began the day before
\* ended half a second after it: that day is counted
C18_Witness ==
    /\ StatsCalled
    /\ stats_call.start_timestamp = DayTicks
    /\ Len(mon_stream_history) = 1
    /\ mon_stream_history[1].started_at < DayTicks
    /\ mon_stream_history[1].ended_at = DayTicks + 1
    /\ stats_call.total_days = 1
    /\ stats_call.total_seconds = 1

-----------------------------------------------------------------------------
(* Claims about the cache files, checked under SpecCache *)

\* C19: saving the announced video ids, the stream history or the posted
\* months as they are in memory and loading the file again gives the same set,
\* the same list of records and the same set; and each file, once the monitor
\* has loaded or written it, loads to what is in memory.
C19_CacheRoundTrip ==
    /\ LoadStrings(SaveStrings(mon_upcoming_posted_ids)) = mon_upcoming_posted_ids
    /\ LoadStreamHistory(SaveStreamHistory(mon_stream_history)) = mon_stream_history
    /\ LoadStrings(SaveStrings(mon_monthly_stats_posted)) = mon_monthly_stats_posted
    /\ LoadStrings(fs_upcoming_cache) = mon_upcoming_posted_ids
    /\ LoadStreamHistory(fs_history_cache) = mon_stream_history
    /\ LoadStrings(fs_monthly_cache) = mon_monthly_stats_posted

\* all three files were written in this run: a video was announced on top of
\* a loaded one, a session was recorded after a loaded one, and the statistics
\* of January were posted on top of a loaded month
C19_Witness ==
    /\ mon_upcoming_posted_ids = {"u1", "u2"}
    /\ fs_upcoming_cache = SaveStrings(mon_upcoming_posted_ids)
    /\ Len(mon_stream_history) = 2
    /\ fs_history_cache = SaveStreamHistory(mon_stream_history)
    /\ mon_monthly_stats_posted = {"1969-12", "1970-01"}
    /\ fs_monthly_cache = SaveStrings(mon_monthly_stats_posted)

-----------------------------------------------------------------------------
(* Claims about the end of a session, checked under SpecCache *)

\* the poll found the stream not live while a session was active, and the
\* iteration is over
SessionEnded == mon_iter.kind = "ended" /\ mon_pc = "wait"

\* the job submitted last, where it is in the queue
LastJobQueued ==
    {i \in 1..Len(xp_queue) : xp_queue[i].id = xp_next_id - 1}

-----------------------------------------------------------------------------
(* Claims about TwitchIRCListener.run, checked under SpecConnect and *)
(* SpecConnectLive *)

\* _connect_and_listen has returned or raised
AttemptOver == irc_attempt.ended # "" /\ irc_pc # "closing"

\* the ways a connection attempt ends while no stop is requested: the token
\* call, the connect, a send or a read raised, or the server closed
FailureKinds == {"token", "connect", "send", "read", "eof"}

\* C22: while stop has not been requested, run never returns; a step in which
\* a connection attempt ends, for whichever reason, puts run to sleep for
\* TWITCH_RECONNECT_DELAY_SECONDS; the sleep ends no earlier than that, and
\* when it ends with stop still not requested the next attempt begins, with
\* its own call of get_access_token; and the sleep does end.
C22_ReconnectAfterEveryEnd ==
    /\ [](irc_pc = "returned" => irc_stop)
    /\ [][(~AttemptOver /\ AttemptOver' /\ ~irc_stop) =>
              /\ irc_attempt'.ended \in FailureKinds
              /\ irc_pc' = "sleeping"
              /\ irc_wake_at' = clock + 5]_vars
    /\ [][(irc_pc = "sleeping" /\ irc_pc' # "sleeping") =>
              /\ clock >= irc_wake_at
              /\ IF irc_stop
                 THEN irc_pc' = "returned"
                 ELSE /\ irc_pc' = "token"
                      /\ irc_attempt'.n = irc_attempt.n + 1
                      /\ irc_token_calls' = irc_token_calls + 1]_vars
    /\ (irc_pc = "sleeping" /\ irc_attempt.n < MaxConnects)
          ~> (irc_pc = "token" \/ irc_stop)

\* a read raised on the first connection, and the second attempt has a
\* connection that is being read
C22_Witness ==
    /\ ~irc_stop
    /\ irc_attempt.n = 2
    /\ irc_attempt.prev_ended = "read"
    /\ irc_pc = "reading"
    /\ irc_conns = 2
    /\ clock >= 5

\* stop was called while a read was in flight
StoppedInRead == irc_stop /\ irc_stop_pc = "reading"

\* C23: the call of stop changes nothing but the stop event, so a read in
\* flight goes on; after a stop during a read, the read that returns is the
\* last one, run does not sleep, no token is asked for and no connection is
\* opened, and once the read has returned run returns.
C23_StopEndsRun ==
    /\ [][(~irc_stop /\ irc_stop') =>
              /\ irc_pc' = irc_pc
              /\ irc_attempt' = irc_attempt
              /\ irc_written' = irc_written
              /\ irc_count' = irc_count]_vars
    /\ [][StoppedInRead =>
              /\ irc_pc = "reading" => irc_pc' = "closing"
              /\ irc_pc' # "sleeping"
              /\ irc_conns' = irc_conns
              /\ irc_token_calls' = irc_token_calls
              /\ irc_attempt'.n = irc_attempt.n]_vars
    /\ StoppedInRead ~> irc_pc = "returned"

\* stop was called during a read, the read then returned a line, and run
\* has returned
C23_Witness ==
    /\ StoppedInRead
    /\ irc_pc = "returned"
    /\ irc_attempt.ended = "stopped"
    /\ irc_attempt.reads >= 1

\* the line is a keep-alive probe, as it was built
IsProbe(w) ==
    /\ w.kind = "other"
    /\ w.tags = <<>>
    /\ Len(w.text) >= 5
    /\ SubSeq(w.text, 1, 5) = <<"P", "I", "N", "G", " ">>

\* C24: the step that reads a keep-alive probe writes one line, "PONG " and
\* the text after "PING ", to the connection and submits no job; the step that
\* reads any other line writes nothing.
C24_ProbeAnswered ==
    [][irc_count' = irc_count + 1 =>
          IF IsProbe(irc_last'.line)
          THEN /\ irc_written' =
                     Append(irc_written,
                            <<"P", "O", "N", "G", " ">>
                                \o SubSeq(irc_last'.line.text, 6, Len(irc_last'.line.text)))
               /\ xp_queue' = xp_queue
               /\ xp_next_id' = xp_next_id
               /\ xp_accepted' = xp_accepted
               /\ xp_dropped' = xp_dropped
          ELSE irc_written' = irc_written]_vars

\* a probe whose payload holds a space was answered on a connection that had
\* answered a probe before, with a job in the queue
C24_Witness ==
    /\ irc_last.line.text = <<"P", "I", "N", "G", " ", "a", " ", "b">>
    /\ Len(irc_written) = 5
    /\ irc_written[5] = <<"P", "O", "N", "G", " ", "a", " ", "b">>
    /\ xp_queue # <<>>

\* C26: every attempt begins with its own call of get_access_token; a
\* connection is opened only after that call has returned, and the first
\* lines written to it are PASS with the token this call gave ("oauth:" put
\* in front unless it is there), NICK and JOIN of the configured channel, in
\* this order; no line is read before they are drained.
C26_ConnectionOrder ==
    /\ [](/\ irc_token_calls = irc_attempt.n
          /\ irc_conns <= irc_attempt.n
          /\ irc_attempt.token_call \in {0, irc_attempt.n}
          /\ irc_attempt.opened =>
                /\ irc_attempt.token_call = irc_attempt.n
                /\ irc_attempt.pass_value
                      \in {<<"o", "a", "u", "t", "h", ":", "a", "1">>,
                           <<"o", "a", "u", "t", "h", ":", "a", "2">>}
                /\ Len(irc_written) >= 3
                /\ irc_written[1] = <<"P", "A", "S", "S", " ">> \o irc_attempt.pass_value
                /\ irc_written[2] = <<"N", "I", "C", "K", " ", "b", "o", "t">>
                /\ irc_written[3] = <<"J", "O", "I", "N", " ", "#", "t", "v">>
          /\ irc_attempt.drained => irc_attempt.opened
          /\ (irc_pc = "reading" \/ irc_attempt.reads > 0) => irc_attempt.drained)
    /\ [][irc_attempt'.n # irc_attempt.n =>
              /\ irc_attempt'.token_call = 0
              /\ irc_attempt'.pass_value = <<>>
              /\ ~irc_attempt'.opened]_vars
    /\ [][irc_conns' # irc_conns =>
              /\ irc_conns' = irc_conns + 1
              /\ irc_attempt.token_call = irc_attempt.n
              /\ ~irc_attempt.opened]_vars

\* the second connection was opened with the token of the second call, which
\* differs from the first, and a line was read on it
C26_Witness ==
    /\ irc_attempt.n = 2
    /\ irc_attempt.token_call = 2
    /\ irc_conns = 2
    /\ irc_attempt.reads = 1
    /\ irc_attempt.pass_value = <<"o", "a", "u", "t", "h", ":", "a", "2">>
    /\ irc_written[1] = <<"P", "A", "S", "S", " ", "o", "a", "u", "t", "h", ":", "a", "2">>

-----------------------------------------------------------------------------
(* Claims about TwitchStreamMonitor._run, checked under SpecRun *)

\* the poll iteration that has just ended raised: in the token call or the
\* primary fetch (nothing else had been done), or later, in the chart call
IterationFailed ==
    mon_pc = "wait" /\ (mon_iter.kind = "failed" \/ mon_iter.render = "raised")

\* C27: an exception in a poll iteration ends that iteration only: the loop
\* is then in its wait, which lasts the poll interval from that moment, the
\* next iteration begins when the wait is over unless stop is requested
\* first, and _run returns only when stop has been requested.
C27_FailedPollContinues ==
    /\ [](mon_pc = "returned" => mon_stop)
    /\ [][(mon_polls' # mon_polls /\ mon_iter'.kind = "failed") =>
              /\ mon_pc' = "wait"
              /\ mon_wait_until' = wall + PollInterval
              /\ UNCHANGED <<mon_session, mon_stream_history, xp_queue, xp_next_id,
                             cache_vars>>]_vars
    /\ [][(mon_iter'.render = "raised" /\ mon_iter.render # "raised") =>
              /\ mon_pc' = "wait"
              /\ mon_wait_until' = wall + PollInterval]_vars
    /\ [][mon_polls' # mon_polls =>
              /\ mon_polls' = mon_polls + 1
              /\ ~mon_stop
              /\ wall >= mon_wait_until]_vars
    /\ \A n \in 1..(MaxPolls - 1) :
            (IterationFailed /\ mon_polls = n) ~> (mon_polls = n + 1 \/ mon_stop)

\* the session created by the first poll still has its one sample after two
\* more polls: the second failed, and so did the third, which came after it
C27_Witness ==
    /\ mon_polls = 3
    /\ mon_pc = "wait"
    /\ ~mon_stop
    /\ mon_iter.kind = "failed"
    /\ mon_session # NoSession
    /\ mon_session.samples = <<[timestamp |-> WallStart, viewer_count |-> 7]>>

-----------------------------------------------------------------------------
(* Claims about _fetch_youtube_stream_infos, checked under SpecGather *)

\* the secondary batch of this poll has been gathered and sorted out
BatchDone == mon_pc \in {"upcoming", "polled"} /\ mon_youtube_last_polled_at = mon_now

\* C28: when the fetch of one channel raises, that channel has no entry in
\* the batch result, every other channel's entry is what its own fetch gave,
\* the iteration goes on to its next step, and the samples of that poll go
\* to the channels that have an entry and to no other.
C28_ChannelFailureIsolated ==
    /\ [](BatchDone =>
            /\ mon_iter.kind = "polling"
            /\ \A ch \in YouTubeChannels :
                    mon_youtube_infos[ch] =
                        IF mon_fetched[ch] = FetchRaised THEN NoYouTubeInfo
                        ELSE mon_fetched[ch])
    /\ [][mon_pc = "fetching" /\ mon_pc' # "fetching" =>
              /\ mon_pc' = "upcoming"
              /\ UNCHANGED <<mon_iter, mon_session, mon_wait_until, xp_queue>>]_vars
    /\ [][(mon_pc = "polled" /\ mon_youtube_last_polled_at = mon_now
            /\ mon_iter'.kind = "continued") =>
              \A ch \in YouTubeChannels :
                  IF mon_fetched[ch] \in {FetchRaised, NoYouTubeInfo}
                  THEN mon_session'.youtube_channels[ch] = mon_session.youtube_channels[ch]
                  ELSE /\ mon_session'.youtube_channels[ch].video_id = mon_fetched[ch].video_id
                       /\ LET samples == mon_session'.youtube_channels[ch].samples
                          IN samples[Len(samples)] =
                                [timestamp |-> mon_now,
                                 viewer_count |-> mon_fetched[ch].viewer_count]]_vars

\* the fetch of the first channel, which has samples from an earlier poll,
\* raised, and the second channel's live video is in the result, in a poll
\* that goes on to its samples
C28_Witness ==
    /\ mon_pc = "polled"
    /\ mon_stream_info.kind = "live"
    /\ mon_session # NoSession
    /\ mon_session.youtube_channels["yt1"] # NoChannelSession
    /\ mon_fetched["yt1"] = FetchRaised
    /\ mon_youtube_infos["yt1"] = NoYouTubeInfo
    /\ mon_youtube_infos["yt2"] # NoYouTubeInfo
    /\ mon_youtube_infos["yt2"].video_id = "v1"

-----------------------------------------------------------------------------
(* Claims about _record_stream_history, checked under SpecHistory *)

\* the records of the history with the stream id
RecordsWithId(history, stream_id) ==
    {i \in 1..Len(history) : history[i].stream_id = stream_id}

\* C30: a call of _record_stream_history for a session that ended later than
\* it started leaves exactly one record with the session's stream id in the
\* history, the one of this call; every record of the history ends later
\* than it starts; and after the call no record ended more than 400 days
\* before the time of the call.
C30_HistoryAfterRecord ==
    /\ [](\A i \in 1..Len(mon_stream_history) :
              mon_stream_history[i].ended_at > mon_stream_history[i].started_at)
    /\ [][(mon_pc = "summary" /\ mon_pc' # "summary"
            /\ mon_now > mon_previous.started_at) =>
              /\ Cardinality(RecordsWithId(mon_stream_history', mon_previous.stream_id)) = 1
              /\ \A i \in RecordsWithId(mon_stream_history', mon_previous.stream_id) :
                    mon_stream_history'[i] =
                        [stream_id |-> mon_previous.stream_id,
                         started_at |-> mon_previous.started_at,
                         ended_at |-> mon_now]
              /\ \A i \in 1..Len(mon_stream_history') :
                    mon_stream_history'[i].ended_at >= wall - HISTORY_RETENTION_SECONDS
              /\ fs_history_cache' = SaveStreamHistory(mon_stream_history')]_vars

\* the session s1 has ended one poll after the start: its record has replaced
\* the one the file held for s1, the record that is exactly 400 days old has
\* stayed and the older one is gone
C30_Witness ==
    /\ mon_pc = "wait"
    /\ mon_iter.kind = "ended"
    /\ Len(mon_iter.history0) = 3
    /\ wall = HistoryWallStart + ClockStep
    /\ mon_stream_history =
          <<[stream_id |-> "s2", started_at |-> ClockStep, ended_at |-> 3 * ClockStep],
            [stream_id |-> "s1", started_at |-> HistoryWallStart - ClockStep,
             ended_at |-> HistoryWallStart + ClockStep]>>

-----------------------------------------------------------------------------
(* Claims about the detached session, checked under SpecMonitor *)

\* the step detaches the active session: it is superseded or cleared
Detaches == mon_pc = "polled" /\ mon_pc' = "summary"

\* C31: the session that a poll detaches is the active session exactly as
\* the poll before left it; from its detachment to the end of
\* _post_session_summary none of its fields and samples changes, the sample
\* of the detaching poll goes to the new session only, and no other poll
\* begins in between; the history record is made from its fields.
C31_DetachedSessionFrozen ==
    /\ [][Detaches =>
              /\ mon_previous' = mon_session
              /\ mon_previous' = mon_iter.session0
              /\ mon_session' # mon_session
              /\ mon_session' # NoSession =>
                    /\ mon_session'.stream_id # mon_previous'.stream_id
                    /\ Len(mon_session'.samples) = 1
                    /\ mon_session'.samples[1].timestamp = mon_now]_vars
    /\ [][mon_pc = "summary" =>
              /\ mon_previous' = mon_previous
              /\ mon_polls' = mon_polls
              /\ mon_pc' = "wait" =>
                    \A i \in RecordsWithId(mon_stream_history', mon_previous.stream_id) :
                        \/ mon_stream_history'[i].started_at = mon_previous.started_at
                        \/ ~HistoryRecordable(mon_previous.started_at, mon_now)]_vars
    /\ [](mon_pc = "summary" => mon_previous = mon_iter.session0 /\ mon_previous # NoSession)

\* a session with a full sample buffer has been superseded, the new session
\* holds the sample of this poll, and time has passed since, the summary
\* still being under way
C31_Witness ==
    /\ mon_pc = "summary"
    /\ mon_iter.kind = "replaced"
    /\ Len(mon_previous.samples) = twitch_stream_sample_max_points
    /\ mon_previous.samples[Len(mon_previous.samples)].timestamp < mon_now
    /\ Len(mon_session.samples) = 1
    /\ wall > mon_now

-----------------------------------------------------------------------------
(* Claims about the end of the monitor task, checked under SpecRun *)

\* the poll iteration is under way
InIteration == mon_pc \notin {"wait", "returned"}

\* C33: a call of stop only sets the event. An iteration that is under way
\* then goes on to its end; no iteration begins once the event is set; in
\* its wait the task lets no time pass and returns, whatever is left of the
\* poll interval; and the task does return, so that close, which awaits it,
\* returns.
C33_StopEndsMonitor ==
    /\ [][mon_stop' # mon_stop =>
              /\ mon_stop'
              /\ UNCHANGED <<mon_pc, mon_polls, mon_iter, mon_session, mon_wait_until,
                             mon_stream_history, xp_vars, cache_vars, time_vars>>]_vars
    /\ [][mon_stop => mon_polls' = mon_polls]_vars
    /\ [][(mon_stop /\ InIteration) => mon_pc' # "returned"]_vars
    /\ [][(mon_stop /\ mon_pc = "wait") =>
              /\ mon_pc' = "returned"
              /\ UNCHANGED <<time_vars, mon_wait_until>>]_vars
    /\ [][mon_pc = "returned" => UNCHANGED <<mon_vars, xp_vars, cache_vars>>]_vars
    /\ (mon_stop /\ InIteration) ~> (mon_stop /\ mon_pc = "wait")
    /\ mon_stop ~> (mon_pc = "returned")

\* the task has returned after an iteration that published a summary, with
\* the whole poll interval still ahead
C33_Witness ==
    /\ mon_pc = "returned"
    /\ mon_stop
    /\ mon_polls = 2
    /\ mon_iter.render = "ok"
    /\ wall + PollInterval = mon_wait_until

-----------------------------------------------------------------------------
(* Claims about the chart files, checked under SpecPoster *)

\* C35: every chart file created for a summary job is deleted by the time the
\* publish queue has been drained and close has returned, whatever the queue
\* held when the job was submitted.
C35_Original ==
    CloseReturned => fs_files = {}

-----------------------------------------------------------------------------
(* Claims about a poll that fails early, checked under SpecCache *)

\* the poll iteration that begins in this step raises in get_access_token or
\* in the primary fetch
PollFailsEarly == mon_polls' # mon_polls /\ mon_iter'.kind = "failed"

\* the last poll iteration raised in get_access_token or in the primary
\* fetch, and no other has begun since
FailedEarly == mon_pc = "wait" /\ mon_iter.kind = "failed"

\* C36: a poll iteration that raises in the token call or in the primary
\* fetch leaves the active session with its sample buffers, the stream
\* history, the two posted sets, the cache files and the publish queue as
\* they were, until the next iteration begins; in particular a session that
\* was active before the failed poll is still active after it.
C36_EarlyFailureChangesNothing ==
    /\ [][PollFailsEarly =>
              /\ mon_pc' = "wait"
              /\ UNCHANGED <<mon_session, mon_stream_history, mon_upcoming_posted_ids,
                             mon_monthly_stats_posted, cache_vars, xp_vars>>]_vars
    /\ [][(FailedEarly /\ mon_polls' = mon_polls) =>
              UNCHANGED <<mon_session, mon_stream_history, mon_upcoming_posted_ids,
                          mon_monthly_stats_posted, cache_vars, xp_vars>>]_vars
    /\ [](FailedEarly =>
              /\ mon_session = mon_iter.session0
              /\ mon_stream_history = mon_iter.history0
              /\ xp_next_id = mon_iter.next_id0)

\* a poll has failed early while a session with a full sample buffer was
\* active, a history record and an announced video id being there, and the
\* poll interval has passed since
C36_Witness ==
    /\ FailedEarly
    /\ mon_session # NoSession
    /\ Len(mon_session.samples) = twitch_stream_sample_max_points
    /\ mon_stream_history # <<>>
    /\ mon_upcoming_posted_ids # {}
    /\ wall >= mon_wait_until

-----------------------------------------------------------------------------
(* Claims about a stop during a session, checked under SpecRun *)

\* the history holds a record made from the session
RecordedInHistory(session) ==
    \E i \in 1..Len(mon_stream_history) :
        /\ mon_stream_history[i].stream_id = session.stream_id
        /\ mon_stream_history[i].started_at = session.started_at

\* the step ends a session: a poll that found the stream not live, or live
\* under another id, detaches it and publishes its summary
EndsSession ==
    /\ mon_pc = "summary"
    /\ mon_iter.kind \in {"ended", "replaced"}
    /\ mon_previous # NoSession

\* C37: the history, its cache file, the chart files and the publish queue
\* change only in the step that ends a session detached by a poll; neither
\* stop nor the end of the task changes them or the session, so that a
\* session active when the task has ended has no history record and no
\* summary job.
C37_StopLeavesSessionUnrecorded ==
    /\ [][(\/ mon_stream_history' # mon_stream_history
           \/ fs_history_cache' # fs_history_cache
           \/ fs_created' # fs_created
           \/ xp_next_id' # xp_next_id) => EndsSession]_vars
    /\ [][(mon_stop' # mon_stop \/ (mon_pc' = "returned" /\ mon_pc # "returned")) =>
              UNCHANGED <<mon_session, mon_previous, mon_stream_history, cache_vars, xp_vars>>]_vars
    /\ []((mon_pc = "returned" /\ mon_session # NoSession) =>
              /\ ~RecordedInHistory(mon_session)
              /\ mon_session.samples # <<>>)

\* the task has ended on a stop while the second session of the run was
\* active; the first session has its history record and its chart file
C37_Witness ==
    /\ mon_pc = "returned"
    /\ mon_stop
    /\ mon_session # NoSession
    /\ Len(mon_stream_history) = 1
    /\ fs_created = 1
    /\ mon_stream_history[1].started_at < mon_session.started_at

-----------------------------------------------------------------------------
(* Claims about the statistics of a run's history, checked under SpecTotals *)

\* C38: for every history the polls of a run have built, the total that
\* _calculate_monthly_stats returns for a window is at most the length of the
\* window.
C38_Original ==
    StatsCalled => stats_call.total_seconds <= stats_call.end_timestamp - stats_call.start_timestamp

-----------------------------------------------------------------------------
(* Claims about the chat connections, checked under SpecConnect *)

\* the connections that have been opened and not closed yet
OpenConnections == irc_conns - irc_closes

\* the call of _connect_and_listen holds a connection: open_connection has
\* returned and the finally block is not over
HoldsConnection == irc_pc \in {"draining", "reading", "closing"}

\* C39: at most one chat connection is open at any time. A connection is open
\* only while the call of _connect_and_listen that opened it goes on; it has
\* been closed when the call is over, however the call ends (end of stream,
\* send error, read error, stop), that is before the sleep, the next call and
\* the return of run.
C39_OneConnectionOpen ==
    /\ [](OpenConnections \in {0, 1})
    /\ [](OpenConnections = 1 <=> HoldsConnection)
    /\ [][irc_conns' # irc_conns => OpenConnections = 0 /\ irc_conns' = irc_conns + 1]_vars
    /\ [][irc_closes' # irc_closes =>
              /\ irc_closes' = irc_closes + 1
              /\ irc_attempt.opened
              /\ irc_attempt.ended \in {"eof", "read", "send", "stopped"}
              /\ irc_pc' \in {"sleeping", "returned"}]_vars
    /\ [][irc_attempt'.n # irc_attempt.n => OpenConnections = 0 /\ OpenConnections' = 0]_vars
    /\ [](irc_pc = "returned" => OpenConnections = 0)

\* run has returned after two connections: the first ended in a way other
\* than a stop, the second was closed after the stop, and both are closed
C39_Witness ==
    /\ irc_pc = "returned"
    /\ irc_conns = 2
    /\ irc_closes = 2
    /\ irc_attempt.prev_ended \in {"eof", "read", "send"}
    /\ irc_attempt.ended = "stopped"

=============================================================================
